---- MODULE Spec2Model ----
(***************************************************************************)
(* A model of gauth: one-time-password generation (package gauth and the   *)
(* otp / otpauth packages it uses), the salted-CBC config file codec and   *)
(* the command line front end.                                             *)
(*                                                                         *)
(* Representation.  A Go string or []byte is a sequence of byte values     *)
(* 0..255 (Str turns a tuple of one-character strings into one).  A uint64 *)
(* is kept at its width as four 16-bit limbs, most significant first.      *)
(* The hash functions and the block cipher of the Go standard library are  *)
(* replaced by small stand-ins with the same interface: a digest of the    *)
(* right length that depends on every input byte and on their order, and a *)
(* keyed permutation of 16-byte blocks.                                    *)
(***************************************************************************)
EXTENDS Integers, Sequences, FiniteSets, TLC

----------------------------------------------------------------------------
(* Bytes and strings                                                       *)

\* body(v) for the value v of e, which is evaluated once.
Let(e, body(_)) == CHOOSE r \in {body(v) : v \in {e}} : TRUE

UpperCase ==
    << "A", "B", "C", "D", "E", "F", "G", "H", "I", "J", "K", "L", "M",
       "N", "O", "P", "Q", "R", "S", "T", "U", "V", "W", "X", "Y", "Z" >>

LowerCase ==
    << "a", "b", "c", "d", "e", "f", "g", "h", "i", "j", "k", "l", "m",
       "n", "o", "p", "q", "r", "s", "t", "u", "v", "w", "x", "y", "z" >>

DecimalDigits == << "0", "1", "2", "3", "4", "5", "6", "7", "8", "9" >>

Punctuation ==
    [c \in {"\t", "\n", " ", "!", "#", "%", "&", "+", "-", ".", "/", ":", "=", "?", "@", "_"} |->
        CASE c = "\t" -> 9  [] c = "\n" -> 10 [] c = " " -> 32 [] c = "!" -> 33
          [] c = "#" -> 35  [] c = "%" -> 37  [] c = "&" -> 38 [] c = "+" -> 43
          [] c = "-" -> 45  [] c = "." -> 46  [] c = "/" -> 47 [] c = ":" -> 58
          [] c = "=" -> 61  [] c = "?" -> 63  [] c = "@" -> 64 [] c = "_" -> 95]

\* The byte value (ASCII) of a character given as a one-character string.
Ord ==
    [c \in {UpperCase[i] : i \in 1..26} \cup {LowerCase[i] : i \in 1..26}
            \cup {DecimalDigits[i] : i \in 1..10} \cup DOMAIN Punctuation |->
        IF c \in DOMAIN Punctuation THEN Punctuation[c]
        ELSE IF \E i \in 1..26 : UpperCase[i] = c
             THEN 64 + (CHOOSE i \in 1..26 : UpperCase[i] = c)
        ELSE IF \E i \in 1..26 : LowerCase[i] = c
             THEN 96 + (CHOOSE i \in 1..26 : LowerCase[i] = c)
        ELSE 47 + (CHOOSE i \in 1..10 : DecimalDigits[i] = c)]

Str(cs) == [i \in 1..Len(cs) |-> Ord[cs[i]]]

\* unicode.IsSpace on an ASCII byte
IsSpace(c) == c \in {9, 10, 11, 12, 13, 32}

ToUpperByte(c) == IF c >= 97 /\ c <= 122 THEN c - 32 ELSE c

ToLowerByte(c) == IF c >= 65 /\ c <= 90 THEN c + 32 ELSE c

\* strings.ToUpper
ToUpper(s) == [i \in 1..Len(s) |-> ToUpperByte(s[i])]

\* strings.ToLower
ToLower(s) == [i \in 1..Len(s) |-> ToLowerByte(s[i])]

\* strings.Join(strings.Fields(s), ""): s without its white space
JoinFields(s) == SelectSeq(s, LAMBDA c : ~IsSpace(c))

\* strings.TrimSpace
TrimSpace(s) ==
    LET keep == {i \in 1..Len(s) : ~IsSpace(s[i])}
    IN  IF keep = {} THEN << >>
        ELSE LET lo == CHOOSE i \in keep : \A j \in keep : i <= j
                 hi == CHOOSE i \in keep : \A j \in keep : j <= i
             IN  SubSeq(s, lo, hi)

\* strings.HasPrefix / bytes.HasPrefix
HasPrefix(s, p) == Len(s) >= Len(p) /\ SubSeq(s, 1, Len(p)) = p

\* strings.Repeat of one byte
Repeat(c, n) == [i \in 1..n |-> c]

\* The first index i >= from where sep occurs in s, or 0 (strings.Index).
IndexFrom(s, sep, from) ==
    LET hits == {i \in from..(Len(s) - Len(sep) + 1) : SubSeq(s, i, i + Len(sep) - 1) = sep}
    IN  IF hits = {} THEN 0 ELSE CHOOSE i \in hits : \A j \in hits : i <= j

\* A split at the last occurrence of the separator instead of the first
SplitAtLast(s, sep) ==
    LET hits == {i \in 1..(Len(s) - Len(sep) + 1) : SubSeq(s, i, i + Len(sep) - 1) = sep}
    IN  IF hits = {} THEN << s >>
        ELSE LET i == CHOOSE h \in hits : \A j \in hits : j <= h
             IN  << SubSeq(s, 1, i - 1), SubSeq(s, i + Len(sep), Len(s)) >>

\* strings.SplitN(s, sep, 2)
SplitN2(s, sep) ==
    LET i == IndexFrom(s, sep, 1)
    IN  IF i = 0 THEN << s >>
        ELSE << SubSeq(s, 1, i - 1), SubSeq(s, i + Len(sep), Len(s)) >>

\* strings.Split(s, sep) for a separator of one byte: the pieces between
\* the occurrences of the separator, in order.
Split(s, sep) ==
    LET cuts   == {i \in 1..Len(s) : s[i] = sep[1]}
        n      == Cardinality(cuts)
        cut(k) == IF k = 0 THEN 0
                  ELSE IF k > n THEN Len(s) + 1
                  ELSE CHOOSE i \in cuts : Cardinality({j \in cuts : j < i}) = k - 1
    IN  [k \in 1..(n + 1) |-> SubSeq(s, cut(k - 1) + 1, cut(k) - 1)]

----------------------------------------------------------------------------
(* Unsigned 64-bit integers: four 16-bit limbs, most significant first     *)

LimbBase == 256 * 256

U64(a, b, c, d) == << a, b, c, d >>

\* x + 1 modulo 2^64
RECURSIVE IncLimbs(_, _)
IncLimbs(x, i) ==
    IF i = 0 THEN x
    ELSE IF x[i] = LimbBase - 1 THEN IncLimbs([x EXCEPT ![i] = 0], i - 1)
    ELSE [x EXCEPT ![i] = x[i] + 1]

U64Inc(x) == IncLimbs(x, 4)

\* x - 1 modulo 2^64
RECURSIVE DecLimbs(_, _)
DecLimbs(x, i) ==
    IF i = 0 THEN x
    ELSE IF x[i] = 0 THEN DecLimbs([x EXCEPT ![i] = LimbBase - 1], i - 1)
    ELSE [x EXCEPT ![i] = x[i] - 1]

\* x - 1 that stops at zero instead of wrapping around
U64DecSaturating(x) == IF x = << 0, 0, 0, 0 >> THEN x ELSE DecLimbs(x, 4)

U64Dec(x) == DecLimbs(x, 4)

\* binary.BigEndian.PutUint64
PutUint64(x) ==
    [i \in 1..8 |-> IF i % 2 = 1 THEN x[(i + 1) \div 2] \div 256 ELSE x[i \div 2] % 256]

----------------------------------------------------------------------------
(* encoding/base32, StdEncoding.DecodeString                               *)

PadChar == Ord["="]

\* The 5-bit value of a character of the standard alphabet, 255 for any other.
B32Value(c) ==
    IF c >= 65 /\ c <= 90 THEN c - 65
    ELSE IF c >= 50 /\ c <= 55 THEN c - 24
    ELSE 255

\* One quantum of up to eight characters: the 5-bit values read so far are in
\* dbuf.  Padding is accepted from the third character on, in the last quantum
\* only, and has to fill the quantum; 1, 3 and 6 are no data lengths.
RECURSIVE B32Quantum(_, _)
B32Quantum(src, dbuf) ==
    LET j == Len(dbuf)
    IN  IF j = 8 THEN [ok |-> TRUE, dbuf |-> dbuf, rest |-> src, end |-> FALSE]
        ELSE IF src = << >> THEN [ok |-> FALSE, dbuf |-> dbuf, rest |-> src, end |-> FALSE]
        ELSE LET in == Head(src)
                 rest == Tail(src)
             IN  IF in = PadChar /\ j >= 2 /\ Len(rest) < 8
                 THEN [ok   |-> /\ Len(rest) + j >= 7
                                /\ \A k \in 1..(7 - j) : Len(rest) >= k => rest[k] = PadChar
                                /\ j \notin {1, 3, 6},
                       dbuf |-> dbuf, rest |-> rest, end |-> TRUE]
                 ELSE IF B32Value(in) = 255
                 THEN [ok |-> FALSE, dbuf |-> dbuf, rest |-> rest, end |-> FALSE]
                 ELSE B32Quantum(rest, Append(dbuf, B32Value(in)))

\* The bytes of one quantum: 8, 7, 5, 4 or 2 values give 5, 4, 3, 2 or 1 bytes.
B32Pack(d) ==
    LET n  == Len(d)
        b0 == IF n >= 2 THEN << (d[1] * 8) + (d[2] \div 4) >> ELSE << >>
        b1 == IF n >= 4 THEN << ((d[2] * 64) % 256) + (d[3] * 2) + (d[4] \div 16) >> ELSE << >>
        b2 == IF n >= 5 THEN << ((d[4] * 16) % 256) + (d[5] \div 2) >> ELSE << >>
        b3 == IF n >= 7 THEN << ((d[5] * 128) % 256) + (d[6] * 4) + (d[7] \div 8) >> ELSE << >>
        b4 == IF n >= 8 THEN << ((d[7] * 32) % 256) + d[8] >> ELSE << >>
    IN  b0 \o b1 \o b2 \o b3 \o b4

RECURSIVE B32Decode(_)
B32Decode(src) ==
    IF src = << >> THEN [ok |-> TRUE, bytes |-> << >>]
    ELSE LET q == B32Quantum(src, << >>)
         IN  IF ~q.ok THEN [ok |-> FALSE, bytes |-> << >>]
             ELSE IF q.end THEN [ok |-> TRUE, bytes |-> B32Pack(q.dbuf)]
             ELSE LET r == B32Decode(q.rest)
                  IN  [ok |-> r.ok, bytes |-> IF r.ok THEN B32Pack(q.dbuf) \o r.bytes ELSE << >>]

\* DecodeString drops "\r" and "\n" before it decodes.
DecodeString(s) == B32Decode(SelectSeq(s, LAMBDA c : c # 10 /\ c # 13))

----------------------------------------------------------------------------
(* crypto/sha1 and crypto/hmac as they are, for the value of a code        *)

\* a XOR b, bit by bit
RECURSIVE XorBits(_, _)
XorBits(a, b) ==
    IF a = 0 THEN b ELSE IF b = 0 THEN a
    ELSE ((a + b) % 2) + (2 * XorBits(a \div 2, b \div 2))

\* a AND b, bit by bit
RECURSIVE AndBits(_, _)
AndBits(a, b) ==
    IF a = 0 \/ b = 0 THEN 0
    ELSE ((a % 2) * (b % 2)) + (2 * AndBits(a \div 2, b \div 2))

\* A 32-bit word is the pair of its high and low 16 bits.
Word(hi, lo) == << hi, lo >>

Xor32(x, y) == Word(XorBits(x[1], y[1]), XorBits(x[2], y[2]))

\* (x AND y) OR (NOT x AND z)
Ch(x, y, z) ==
    Word(AndBits(x[1], y[1]) + AndBits(65535 - x[1], z[1]),
         AndBits(x[2], y[2]) + AndBits(65535 - x[2], z[2]))

Parity(x, y, z) == Xor32(Xor32(x, y), z)

\* (x AND y) OR (x AND z) OR (y AND z)
Maj(x, y, z) ==
    Word(AndBits(x[1], y[1]) + AndBits(XorBits(x[1], y[1]), z[1]),
         AndBits(x[2], y[2]) + AndBits(XorBits(x[2], y[2]), z[2]))

RECURSIVE Pow2(_)
Pow2(n) == IF n = 0 THEN 1 ELSE 2 * Pow2(n - 1)

\* bits.RotateLeft32(x, n) for 0 < n < 16
RotlSmall(x, n) ==
    Word(((x[1] % Pow2(16 - n)) * Pow2(n)) + (x[2] \div Pow2(16 - n)),
         ((x[2] % Pow2(16 - n)) * Pow2(n)) + (x[1] \div Pow2(16 - n)))

Rotl1(x) == RotlSmall(x, 1)
Rotl5(x) == RotlSmall(x, 5)
Rotl30(x) == RotlSmall(Word(x[2], x[1]), 14)

\* The sum modulo 2^32 of the words of a sequence
Sum32(ws) ==
    LET lo == ws[1][2] + ws[2][2] + (IF Len(ws) > 2 THEN ws[3][2] + ws[4][2] + ws[5][2] ELSE 0)
        hi == ws[1][1] + ws[2][1] + (IF Len(ws) > 2 THEN ws[3][1] + ws[4][1] + ws[5][1] ELSE 0)
    IN  Word((hi + (lo \div 65536)) % 65536, lo % 65536)

\* The message schedule, from the words w so far up to n words
RECURSIVE Schedule(_, _)
Schedule(w, n) ==
    IF Len(w) >= n THEN w
    ELSE IF n = Len(w) + 1
    THEN Append(w, Rotl1(Xor32(Xor32(w[Len(w) - 2], w[Len(w) - 7]),
                               Xor32(w[Len(w) - 13], w[Len(w) - 15]))))
    ELSE Let(Schedule(w, (Len(w) + n) \div 2), LAMBDA half : Schedule(half, n))

K(t) == IF t <= 20 THEN Word(23170, 31129)       \* 0x5A827999
        ELSE IF t <= 40 THEN Word(28377, 60321)  \* 0x6ED9EBA1
        ELSE IF t <= 60 THEN Word(36635, 48348)  \* 0x8F1BBCDC
        ELSE Word(51810, 49622)                  \* 0xCA62C1D6

F(t, b, c, d) ==
    IF t <= 20 THEN Ch(b, c, d)
    ELSE IF t <= 40 THEN Parity(b, c, d)
    ELSE IF t <= 60 THEN Maj(b, c, d)
    ELSE Parity(b, c, d)

\* The rounds from to through; s is << a, b, c, d, e >>
RECURSIVE Rounds(_, _, _, _)
Rounds(s, w, from, through) ==
    IF from = through
    THEN << Sum32(<< Rotl5(s[1]), F(from, s[2], s[3], s[4]), s[5], w[from], K(from) >>),
            s[1], Rotl30(s[2]), s[3], s[4] >>
    ELSE Let(Rounds(s, w, from, (from + through) \div 2), LAMBDA half :
           Rounds(half, w, ((from + through) \div 2) + 1, through))

\* The words of a 64-byte block, big-endian
BlockWords(p) ==
    [i \in 1..16 |-> Word((p[(4 * i) - 3] * 256) + p[(4 * i) - 2], (p[(4 * i) - 1] * 256) + p[4 * i])]

\* block: the digest state h after the blocks of p
RECURSIVE Blocks(_, _)
Blocks(h, p) ==
    IF p = << >> THEN h
    ELSE Let(Schedule(BlockWords(SubSeq(p, 1, 64)), 80), LAMBDA w :
           Let(Rounds(h, w, 1, 80), LAMBDA s :
             Let([i \in 1..5 |-> Sum32(<< h[i], s[i] >>)], LAMBDA n :
               Blocks(n, SubSeq(p, 65, Len(p))))))

\* The message with its padding: 0x80, zeros, and the length in bits
Padded(msg) ==
    LET n == Len(msg)
        z == (119 - (n % 64)) % 64
        bits == n * 8
    IN  msg \o << 128 >> \o Repeat(0, z) \o << 0, 0, 0, 0 >>
            \o << bits \div 16777216, (bits \div 65536) % 256, (bits \div 256) % 256, bits % 256 >>

\* The initial digest state
InitialState ==
    << Word(26437, 8961), Word(61389, 43913), Word(39098, 56574), Word(4146, 21622),
       Word(50130, 57840) >>

\* sha1.Sum: the twenty bytes of the digest state after the padded message
Sha1Sum(msg) ==
    Let(Blocks(InitialState, Padded(msg)), LAMBDA h :
      [i \in 1..20 |-> LET wd == h[((i - 1) \div 4) + 1]
                           half == IF ((i - 1) % 4) < 2 THEN wd[1] ELSE wd[2]
                       IN  IF i % 2 = 1 THEN half \div 256 ELSE half % 256])

\* hmac.New(sha1.New, key), Write(msg), Sum(nil) (RFC 2104, block size 64)
HmacSha1(key, msg) ==
    Let(IF Len(key) > 64 THEN Sha1Sum(key) ELSE key, LAMBDA k :
      Let(k \o Repeat(0, 64 - Len(k)), LAMBDA k0 :
        Let(Sha1Sum([i \in 1..64 |-> XorBits(k0[i], 54)] \o msg), LAMBDA inner :
          Sha1Sum([i \in 1..64 |-> XorBits(k0[i], 92)] \o inner))))

----------------------------------------------------------------------------
(* Stand-ins for crypto/sha1, sha256, sha512 and crypto/hmac               *)

\* The digest size in bytes of the hash a constructor makes.
HashSize(h) == CASE h = "sha1" -> 20 [] h = "sha256" -> 32 [] h = "sha512" -> 64

HashSeed(h) == CASE h = "sha1" -> 1 [] h = "sha256" -> 2 [] h = "sha512" -> 3

RECURSIVE Absorb(_, _)
Absorb(acc, m) ==
    IF m = << >> THEN acc ELSE Absorb(((acc * 31) + Head(m) + 1) % 65521, Tail(m))

\* h.Sum(nil) after the bytes of msg were written to a fresh hash h.
HashSum(h, msg) ==
    LET a == Absorb(HashSeed(h), msg)
    IN  [i \in 1..HashSize(h) |-> ((a * (i + 6)) + (i * i) + (a \div 256)) % 256]

\* hmac.New(h, key), Write(msg), Sum(nil): key and message are kept apart.
\* The constructor "crypto/sha1" is SHA-1 itself; "sha1", "sha256" and
\* "sha512" are stand-ins with the digest sizes of theirs.
HmacSum(h, key, msg) ==
    IF h = "crypto/sha1" THEN HmacSha1(key, msg) ELSE HashSum(h, key \o << 256 >> \o msg)

----------------------------------------------------------------------------
(* Package otp                                                             *)

\* ParseKey: white space is ignored, case is normalized, padding is added.
ParseKey(s) ==
    LET clean == ToUpper(JoinFields(s))
        n     == Len(clean) % 8
    IN  DecodeString(IF n # 0 THEN clean \o Repeat(PadChar, 8 - n) ELSE clean)

\* Config.newHash: a nil Hash means SHA-1
newHash(c) == IF c.Hash # "nil" THEN c.Hash ELSE "sha1"

\* Config.digits
digits(c) == IF c.Digits <= 0 THEN 6 ELSE c.Digits

\* Config.hmac
hmac(c, counter) == HmacSum(newHash(c), c.Key, PutUint64(counter))

\* A Truncate that takes the offset from the first byte of the digest
TruncateAtFirstByte(digest) ==
    LET offset == digest[1] % 16
    IN  ((digest[offset + 1] % 128) * 16777216) + (digest[offset + 2] * 65536)
            + (digest[offset + 3] * 256) + digest[offset + 4]

\* Truncate: the 31-bit dynamic truncation of RFC 4226
Truncate(digest) ==
    LET offset == digest[Len(digest)] % 16
    IN  ((digest[offset + 1] % 128) * 16777216) + (digest[offset + 2] * 65536)
            + (digest[offset + 3] * 256) + digest[offset + 4]

\* strconv.FormatUint(v, 10)
RECURSIVE FormatUint(_)
FormatUint(v) ==
    IF v < 10 THEN << 48 + v >> ELSE Append(FormatUint(v \div 10), 48 + (v % 10))

\* formatDecimal: the last width digits, left-padded from a string of twenty
\* zeros; slicing that string beyond its length panics.
formatDecimal(hash, width) ==
    LET s == FormatUint(Truncate(hash))
    IN  IF Len(s) < width
        THEN IF width - Len(s) > 20 THEN [panic |-> TRUE, s |-> << >>]
             ELSE [panic |-> FALSE, s |-> Repeat(48, width - Len(s)) \o s]
        ELSE [panic |-> FALSE, s |-> SubSeq(s, Len(s) - width + 1, Len(s))]

\* Config.HOTP
HOTP(c, counter) ==
    LET nd   == digits(c)
        code == formatDecimal(hmac(c, counter), nd)
    IN  IF code.panic \/ Len(code.s) # nd THEN [panic |-> TRUE, s |-> << >>] ELSE code

----------------------------------------------------------------------------
(* Package gauth: code generation                                          *)

EmptyString == << >>

TypeTotp == Str(<< "t", "o", "t", "p" >>)
TypeHotp == Str(<< "h", "o", "t", "p" >>)
AlgSHA1 == Str(<< "S", "H", "A", "1" >>)
AlgSHA256 == Str(<< "S", "H", "A", "2", "5", "6" >>)
AlgSHA512 == Str(<< "S", "H", "A", "5", "1", "2" >>)

\* What a call of one of the Codes functions gives back: the three codes and
\* the error (ErrNil for none), or a panic of the goroutine.
CodesResult(prev, curr, next, err) ==
    [prev |-> prev, curr |-> curr, next |-> next, err |-> err, panic |-> FALSE]

CodesPanic ==
    [prev |-> EmptyString, curr |-> EmptyString, next |-> EmptyString,
     err |-> "nil", panic |-> TRUE]

CodesError(err) == CodesResult(EmptyString, EmptyString, EmptyString, err)

\* pickAlgorithm that falls back to SHA-1 for a name it does not know
pickAlgorithmDefaulting(name) ==
    IF name = AlgSHA256 THEN [hash |-> "sha256", err |-> "nil"]
    ELSE IF name = AlgSHA512 THEN [hash |-> "sha512", err |-> "nil"]
    ELSE [hash |-> "sha1", err |-> "nil"]

\* pickAlgorithm
pickAlgorithm(name) ==
    IF name = EmptyString \/ name = AlgSHA1 THEN [hash |-> "sha1", err |-> "nil"]
    ELSE IF name = AlgSHA256 THEN [hash |-> "sha256", err |-> "nil"]
    ELSE IF name = AlgSHA512 THEN [hash |-> "sha512", err |-> "nil"]
    ELSE [hash |-> "nil", err |-> "unsupported algorithm"]

\* The three codes of a parsed key: prev, curr and next at counter - 1,
\* counter and counter + 1 in unsigned 64-bit arithmetic.
ThreeCodes(cfg, timeStep) ==
    LET prev == HOTP(cfg, U64Dec(timeStep))
        curr == HOTP(cfg, timeStep)
        next == HOTP(cfg, U64Inc(timeStep))
    IN  IF prev.panic \/ curr.panic \/ next.panic THEN CodesPanic
        ELSE CodesResult(prev.s, curr.s, next.s, "nil")

\* CodesAtTimeStep that goes on with whatever ParseKey decoded
CodesAtTimeStepKeyUnchecked(acct, ts) ==
    IF acct.Type # TypeTotp THEN CodesError("unsupported type")
    ELSE LET alg == pickAlgorithm(acct.Algorithm)
         IN  IF alg.err # "nil" THEN CodesError(alg.err)
             ELSE ThreeCodes([Key |-> ParseKey(acct.RawSecret).bytes, Hash |-> alg.hash,
                              Digits |-> acct.Digits], ts)

\* CodesAtTimeStep
CodesAtTimeStep(acct, ts) ==
    IF acct.Type # TypeTotp THEN CodesError("unsupported type")
    ELSE LET alg == pickAlgorithm(acct.Algorithm)
         IN  IF alg.err # "nil" THEN CodesError(alg.err)
             ELSE LET key == ParseKey(acct.RawSecret)
                  IN  IF ~key.ok THEN CodesError("invalid secret")
                      ELSE ThreeCodes([Key |-> key.bytes, Hash |-> alg.hash,
                                       Digits |-> acct.Digits], ts)

\* Codes of the earlier package version that takes a parsed URL: SHA-1 only.
\* ts is the value its time window function returns.
CodesOfURL(acct, ts) ==
    IF acct.Type # TypeTotp THEN CodesError("unsupported type")
    ELSE IF acct.Algorithm # EmptyString /\ acct.Algorithm # AlgSHA1
    THEN CodesError("unsupported algorithm")
    ELSE LET key == ParseKey(acct.RawSecret)
         IN  IF ~key.ok THEN CodesError("invalid secret")
             ELSE ThreeCodes([Key |-> key.bytes, Hash |-> "nil", Digits |-> acct.Digits], ts)

\* Codes of the first package version: a secret and a time slice, default
\* settings.
CodesOfSecret(sec, ts) ==
    LET key == ParseKey(sec)
    IN  IF ~key.ok THEN CodesError("invalid secret")
        ELSE ThreeCodes([Key |-> key.bytes, Hash |-> "nil", Digits |-> 0], ts)

----------------------------------------------------------------------------
(* Package gauth: the salted CBC codec of the config file                  *)

saltedPrefix == Str(<< "S", "a", "l", "t", "e", "d", "_", "_" >>)
aesKeySize == 16
blockSize == 16
saltOffset == 8
saltSize == 8
minPadding == 1

\* Bitwise exclusive or of two bytes
RECURSIVE Xor(_, _)
Xor(a, b) ==
    IF a = 0 THEN b
    ELSE IF b = 0 THEN a
    ELSE ((a + b) % 2) + (2 * Xor(a \div 2, b \div 2))

XorBlock(x, y) == [i \in 1..Len(x) |-> Xor(x[i], y[i])]

\* Stand-in for the AES block cipher made by aes.NewCipher(key): a keyed
\* permutation of 16-byte blocks and its inverse.
BlockRotation(i) == ((i + 4) % blockSize) + 1

EncryptBlock(key, b) == [i \in 1..blockSize |-> (b[BlockRotation(i)] + key[i] + i) % 256]

DecryptBlock(key, c) ==
    [j \in 1..blockSize |->
        LET i == CHOOSE k \in 1..blockSize : BlockRotation(k) = j
        IN  (c[i] + 512 - key[i] - i) % 256]

\* cipher.NewCBCEncrypter(block, iv).CryptBlocks on whole blocks
RECURSIVE CBCEncrypt(_, _, _)
CBCEncrypt(key, iv, src) ==
    IF src = << >> THEN << >>
    ELSE LET c == EncryptBlock(key, XorBlock(SubSeq(src, 1, blockSize), iv))
         IN  c \o CBCEncrypt(key, c, SubSeq(src, blockSize + 1, Len(src)))

\* cipher.NewCBCDecrypter(block, iv).CryptBlocks on whole blocks
RECURSIVE CBCDecrypt(_, _, _)
CBCDecrypt(key, iv, src) ==
    IF src = << >> THEN << >>
    ELSE LET c == SubSeq(src, 1, blockSize)
         IN  XorBlock(DecryptBlock(key, c), iv)
                \o CBCDecrypt(key, c, SubSeq(src, blockSize + 1, Len(src)))

\* CryptBlocks panics on an input that is not a whole number of blocks.
FullBlocks(src) == Len(src) % blockSize = 0

\* deriveKeyAndIV: SHA-256 of the password followed by the salt; the first
\* half is the key, the second the IV.
deriveKeyAndIV(passwd, salt) ==
    LET sum == HashSum("sha256", passwd \o salt)
    IN  [key |-> SubSeq(sum, 1, blockSize), iv |-> SubSeq(sum, blockSize + 1, Len(sum))]

\* What decrypting gives back: the plaintext, or an error, or a panic.  buf is
\* the caller's data after the call: its ciphertext is decrypted in place.
Decrypted(bytes, buf) == [ok |-> TRUE, bytes |-> bytes, err |-> "nil", panic |-> FALSE, buf |-> buf]

DecryptError(err, buf) == [ok |-> FALSE, bytes |-> << >>, err |-> err, panic |-> FALSE, buf |-> buf]

DecryptPanic(buf) == [ok |-> FALSE, bytes |-> << >>, err |-> "nil", panic |-> TRUE, buf |-> buf]

\* removePadding that leaves the first padding byte in place
removePaddingKeepsOne(data, buf) ==
    IF Len(data) = 0 THEN DecryptError("empty data", buf)
    ELSE LET pad == data[Len(data)]
         IN  IF pad < minPadding \/ pad > blockSize \/ pad > Len(data)
             THEN DecryptError("invalid decryption key", buf)
             ELSE Decrypted(SubSeq(data, 1, (Len(data) - pad) + 1), buf)

\* removePadding: strict PKCS#7
removePadding(data, buf) ==
    IF Len(data) = 0 THEN DecryptError("empty data", buf)
    ELSE LET pad == data[Len(data)]
         IN  IF pad < minPadding \/ pad > blockSize \/ pad > Len(data)
             THEN DecryptError("invalid decryption key", buf)
             ELSE IF \E i \in (Len(data) - pad + 1)..Len(data) : data[i] # pad
             THEN DecryptError("invalid block padding", buf)
             ELSE Decrypted(SubSeq(data, 1, Len(data) - pad), buf)

\* decryptConfig
decryptConfig(data, passwd) ==
    IF Len(data) < saltOffset + saltSize THEN DecryptError("encrypted data too short", data)
    ELSE LET salt == SubSeq(data, saltOffset + 1, saltOffset + saltSize)
             rest == SubSeq(data, saltOffset + saltSize + 1, Len(data))
             k    == deriveKeyAndIV(passwd, salt)
         IN  IF ~FullBlocks(rest) THEN DecryptPanic(data)
             ELSE LET clear == CBCDecrypt(k.key, k.iv, rest)
                  IN  removePadding(clear, SubSeq(data, 1, saltOffset + saltSize) \o clear)

\* The decryption inside LoadConfigFile of the earlier package version: no
\* length check before slicing, and the padding byte is bounded by the length
\* of the data only.
decryptLegacy(data, passwd) ==
    IF Len(data) < 16 THEN DecryptPanic(data)
    ELSE LET salt == SubSeq(data, 9, 16)
             rest == SubSeq(data, 17, Len(data))
             sum  == HashSum("sha256", passwd \o salt)
             key  == SubSeq(sum, 1, 16)
             iv   == SubSeq(sum, 17, Len(sum))
         IN  IF ~FullBlocks(rest) \/ Len(rest) = 0 THEN DecryptPanic(data)
             ELSE LET clear == CBCDecrypt(key, iv, rest)
                      buf   == SubSeq(data, 1, 16) \o clear
                      pad   == clear[Len(clear)]
                  IN  IF pad = 0 \/ pad > Len(clear)
                      THEN DecryptError("invalid decryption key", buf)
                      ELSE IF \E i \in (Len(clear) - pad + 1)..Len(clear) : clear[i] # pad
                      THEN DecryptError("invalid block padding", buf)
                      ELSE Decrypted(SubSeq(clear, 1, Len(clear) - pad), buf)

\* encryptConfig that adds no padding block to a block-aligned config
encryptConfigNoFullBlock(salt, passwd, config) ==
    LET sum       == HashSum("sha256", passwd \o salt)
        key       == SubSeq(sum, 1, aesKeySize)
        iv        == SubSeq(sum, aesKeySize + 1, Len(sum))
        padLength == (blockSize - (Len(config) % blockSize)) % blockSize
    IN  saltedPrefix \o salt \o CBCEncrypt(key, iv, config \o Repeat(padLength, padLength))

\* encryptConfig
encryptConfig(salt, passwd, config) ==
    LET sum       == HashSum("sha256", passwd \o salt)
        key       == SubSeq(sum, 1, aesKeySize)
        iv        == SubSeq(sum, aesKeySize + 1, Len(sum))
        padLength == blockSize - (Len(config) % blockSize)
    IN  saltedPrefix \o salt \o CBCEncrypt(key, iv, config \o Repeat(padLength, padLength))

----------------------------------------------------------------------------
(* The config file and the package's functions on it                       *)

\* A path of the file system: absent, or a regular file with its bytes and
\* its permission bits.  The process does not run as the superuser.
ModeOwnerRW == 6 * 64                  \* 0600
ModeWide == (6 * 64) + (4 * 8) + 4     \* 0644
ModeReadOnly == 4 * 64                 \* 0400

NoFile == [exists |-> FALSE, data |-> << >>, mode |-> 0]

File(data, mode) == [exists |-> TRUE, data |-> data, mode |-> mode]

OwnerCanRead(f) == (f.mode \div 256) % 2 = 1

OwnerCanWrite(f) == (f.mode \div 128) % 2 = 1

\* os.ReadFile
ReadFile(f) ==
    IF ~f.exists THEN [err |-> "not exist", data |-> << >>]
    ELSE IF ~OwnerCanRead(f) THEN [err |-> "permission denied", data |-> << >>]
    ELSE [err |-> "nil", data |-> f.data]

\* os.WriteFile(path, data, perm) that also sets the mode of an existing file
WriteFileChmod(f, data, perm) ==
    IF f.exists /\ ~OwnerCanWrite(f) THEN [err |-> "permission denied", file |-> f]
    ELSE [err |-> "nil", file |-> File(data, perm)]

\* os.WriteFile(path, data, perm): perm is used only when the file is created
WriteFile(f, data, perm) ==
    IF ~f.exists THEN [err |-> "nil", file |-> File(data, perm)]
    ELSE IF ~OwnerCanWrite(f) THEN [err |-> "permission denied", file |-> f]
    ELSE [err |-> "nil", file |-> File(data, f.mode)]

\* ReadConfigFile
ReadConfigFile(f) ==
    LET r == ReadFile(f)
    IN  IF r.err # "nil" THEN [data |-> << >>, isEncrypted |-> FALSE, err |-> r.err]
        ELSE [data |-> r.data, isEncrypted |-> HasPrefix(r.data, saltedPrefix), err |-> "nil"]

\* What LoadConfigFile gives back, and how many times it called getPass.
Loaded(dec, calls) ==
    [ok |-> dec.ok, bytes |-> dec.bytes, err |-> dec.err, panic |-> dec.panic, calls |-> calls]

\* The outcomes of the password provider: a password or a failure.
GotPass(passwd) == [ok |-> TRUE, passwd |-> passwd]

NoPass == [ok |-> FALSE, passwd |-> << >>]

\* LoadConfigFile that asks for the password before it looks at the file
LoadConfigFileAsksFirst(f, getPass) ==
    LET r == ReadConfigFile(f)
    IN  IF ~getPass.ok THEN Loaded(DecryptError("reading passphrase", << >>), 1)
        ELSE IF r.err # "nil" THEN Loaded(DecryptError("reading config file", << >>), 1)
        ELSE IF ~r.isEncrypted THEN Loaded(Decrypted(r.data, r.data), 1)
        ELSE Loaded(decryptConfig(r.data, getPass.passwd), 1)

\* LoadConfigFile; getPass is what the password provider returns if called.
LoadConfigFile(f, getPass) ==
    LET r == ReadConfigFile(f)
    IN  IF r.err # "nil" THEN Loaded(DecryptError("reading config file", << >>), 0)
        ELSE IF ~r.isEncrypted THEN Loaded(Decrypted(r.data, r.data), 0)
        ELSE IF ~getPass.ok THEN Loaded(DecryptError("reading passphrase", << >>), 1)
        ELSE Loaded(decryptConfig(r.data, getPass.passwd), 1)

\* data[8:16] of the bytes os.ReadFile returned: the slice has a capacity of
\* at least 512 bytes, zero beyond its length, so the expression does not
\* panic on a short file and reads zeros there.
SaltSlice(data) == [i \in 1..8 |-> IF 8 + i <= Len(data) THEN data[8 + i] ELSE 0]

\* WriteConfigFile that encrypts under a salt of its own
WriteConfigFileFreshSalt(f, passwd, newConfig) ==
    LET r == ReadConfigFile(f)
    IN  IF r.err # "nil" /\ r.err # "not exist" THEN [err |-> "reading config file", file |-> f]
        ELSE IF ~r.isEncrypted THEN WriteFile(f, newConfig, ModeOwnerRW)
        ELSE WriteFile(f, encryptConfig(Repeat(7, 8), passwd, newConfig), ModeOwnerRW)

\* WriteConfigFile
WriteConfigFile(f, passwd, newConfig) ==
    LET r == ReadConfigFile(f)
    IN  IF r.err # "nil" /\ r.err # "not exist" THEN [err |-> "reading config file", file |-> f]
        ELSE IF ~r.isEncrypted THEN WriteFile(f, newConfig, ModeOwnerRW)
        ELSE WriteFile(f, encryptConfig(SaltSlice(r.data), passwd, newConfig), ModeOwnerRW)

----------------------------------------------------------------------------
(* State                                                                   *)

VARIABLES
    u,          \* the account (an otpauth.URL) handed to a Codes function
    timeStep,   \* the time step handed to it, or read from its time window
    called,     \* the function that was called, "none" before the call
    ret,        \* what the call returned
    cin,        \* codec: the arguments of encryptConfig, or a prepared input
    enc,        \* codec: the encrypted bytes, decrypted in place by a call
    dec,        \* codec: the decrypting call made and what it returned
    file,       \* the config file on disk
    file0,      \* the config file as it was at the start
    wr,         \* the last call of WriteConfigFile and what it returned
    ld,         \* the last call of LoadConfigFile and what it returned
    nWrites,    \* the number of calls of WriteConfigFile so far
    parts,      \* parsing: the type, label and parameters the input is made of
    config,     \* parsing: the config text, or the URL, handed to the parser
    parsed,     \* parsing: the parser called and what it returned
    cmd,        \* command line: the command given, "list" if none
    accountName,  \* command line: the account name given, empty if none
    now,        \* seconds since the epoch during the invocation
    pc,         \* the function the invocation is in, or how it ended
    cachedRaw,  \* the cached config text; set is FALSE for nil
    cachedUrls, \* the cached accounts
    password,   \* what handleEncryption returned to addCode or removeCode
    rawConfig,  \* the config text addCode works on
    nGetPassword,  \* the number of calls of getPassword so far
    evaluated,  \* the accounts Codes was called for, in order
    stdout,     \* what was written to standard output
    stdin       \* the lines read from standard input at a prompt

codesVars == << u, timeStep, called, ret >>

codecVars == << cin, enc, dec >>

fileVars == << file, file0, wr, ld, nWrites >>

parseVars == << parts, config, parsed >>

cliVars ==
    << cmd, accountName, now, pc, cachedRaw, cachedUrls, password, rawConfig, nGetPassword,
       evaluated, stdout, stdin >>

vars == << codesVars, codecVars, fileVars, parseVars, cliVars >>

\* What the actions of one part of the model leave unchanged.
exceptCodes == << codecVars, fileVars, parseVars, cliVars >>

exceptCodec == << codesVars, fileVars, parseVars, cliVars >>

exceptFile == << codesVars, codecVars, parseVars, cliVars >>

exceptParse == << codecVars, fileVars, cliVars >>

\* The command line works on the config file.
exceptCli == << codesVars, codecVars, parseVars, file0, wr, ld, nWrites >>

\* An otpauth.URL
URL(type, issuer, account, rawSecret, algorithm, dig, period, counter) ==
    [Type |-> type, Issuer |-> issuer, Account |-> account, RawSecret |-> rawSecret,
     Algorithm |-> algorithm, Digits |-> dig, Period |-> period, Counter |-> counter]

NoResult == CodesError("not called")

NotDecrypted == [by |-> "none", passwd |-> << >>, ok |-> FALSE, bytes |-> << >>,
                 err |-> "nil", panic |-> FALSE]

NotWritten == [passwd |-> << >>, config |-> << >>, err |-> "not called", before |-> NoFile]

NotLoaded == [getPass |-> NoPass, ok |-> FALSE, bytes |-> << >>, err |-> "not called",
              panic |-> FALSE, calls |-> 0, after |-> "none"]

\* The parts of the state a specification does not use stay as they are here.
CodesIdle ==
    /\ u = URL(EmptyString, EmptyString, EmptyString, EmptyString, EmptyString, 0, 0, 0)
    /\ timeStep = U64(0, 0, 0, 0)
    /\ called = "none"
    /\ ret = NoResult

CodecIdle ==
    /\ cin = [kind |-> "none", plain |-> << >>, passwd |-> << >>, salt |-> << >>]
    /\ enc = << >>
    /\ dec = NotDecrypted

FileIdle ==
    /\ file = NoFile
    /\ file0 = NoFile
    /\ wr = NotWritten
    /\ ld = NotLoaded
    /\ nWrites = 0

NotParsed == [by |-> "none", ok |-> FALSE, urls |-> << >>, err |-> "not called", line |-> 0]

ParseIdle ==
    /\ parts = [form |-> "none", type |-> << >>, label |-> << >>, params |-> << >>]
    /\ config = << >>
    /\ parsed = NotParsed

\* cachedRaw and cachedUrls when nil
NoCache == [set |-> FALSE, raw |-> << >>]

CliIdle ==
    /\ cmd = "none"
    /\ accountName = << >>
    /\ now = 0
    /\ pc = "none"
    /\ cachedRaw = NoCache
    /\ cachedUrls = << >>
    /\ password = << >>
    /\ rawConfig = << >>
    /\ nGetPassword = 0
    /\ evaluated = << >>
    /\ stdout = << >>
    /\ stdin = << >>

----------------------------------------------------------------------------
(* Parsing: otpauth.ParseURL and gauth.ParseConfig                         *)

\* strings.TrimPrefix
TrimPrefix(s, p) == IF HasPrefix(s, p) THEN SubSeq(s, Len(p) + 1, Len(s)) ELSE s

\* The value of a hexadecimal digit, or -1
HexValue(c) ==
    IF c >= 48 /\ c <= 57 THEN c - 48
    ELSE IF c >= 65 /\ c <= 70 THEN c - 55
    ELSE IF c >= 97 /\ c <= 102 THEN c - 87
    ELSE 0 - 1

\* The bytes url.PathUnescape makes of a string whose escapes are valid
RECURSIVE Unescaped(_)
Unescaped(s) ==
    IF s = << >> THEN << >>
    ELSE IF s[1] = Ord["%"]
    THEN << (HexValue(s[2]) * 16) + HexValue(s[3]) >> \o Unescaped(SubSeq(s, 4, Len(s)))
    ELSE << s[1] >> \o Unescaped(Tail(s))

\* url.PathUnescape: %XX becomes a byte, any other use of % is an error
PathUnescape(s) ==
    IF \E i \in 1..Len(s) :
          /\ s[i] = Ord["%"]
          /\ (i + 2 > Len(s) \/ HexValue(s[i + 1]) < 0 \/ HexValue(s[i + 2]) < 0)
    THEN [ok |-> FALSE, s |-> << >>]
    ELSE [ok |-> TRUE, s |-> Unescaped(s)]

RECURSIVE DecimalValue(_)
DecimalValue(s) ==
    IF s = << >> THEN 0
    ELSE (DecimalValue(SubSeq(s, 1, Len(s) - 1)) * 10) + (s[Len(s)] - 48)

\* strconv.ParseUint(value, 10, 64), for values below 2^31
ParseUint(value) ==
    IF value = << >> \/ (\E i \in 1..Len(value) : value[i] < 48 \/ value[i] > 57)
    THEN [ok |-> FALSE, n |-> 0]
    ELSE [ok |-> TRUE, n |-> DecimalValue(value)]

ParsedURL(url) == [ok |-> TRUE, u |-> url, err |-> "nil"]

ParseURLError(err) ==
    [ok |-> FALSE, u |-> URL(<< >>, << >>, << >>, << >>, << >>, 0, 0, 0), err |-> err]

\* A parseLabel that splits the label at its last colon.
parseLabelAtLastColon(out, s) ==
    Let(PathUnescape(s), LAMBDA un :
      IF ~un.ok THEN ParseURLError("invalid label")
      ELSE Let(SplitAtLast(un.s, << Ord[":"] >>), LAMBDA ps :
             IF Len(ps) = 2 /\ TrimSpace(ps[1]) = << >> THEN ParseURLError("invalid label")
             ELSE IF TrimSpace(ps[Len(ps)]) = << >> THEN ParseURLError("invalid label")
             ELSE ParsedURL([out EXCEPT !.Issuer = IF Len(ps) = 2 THEN TrimSpace(ps[1]) ELSE @,
                                        !.Account = TrimSpace(ps[Len(ps)])])))

\* URL.parseLabel
parseLabel(out, s) ==
    Let(PathUnescape(s), LAMBDA un :
      IF ~un.ok THEN ParseURLError("invalid label")
      ELSE Let(IndexFrom(un.s, << Ord[":"] >>, 1), LAMBDA i :
             Let([issuer  |-> IF i > 0 THEN TrimSpace(SubSeq(un.s, 1, i - 1)) ELSE out.Issuer,
                  account |-> TrimSpace(IF i > 0 THEN SubSeq(un.s, i + 1, Len(un.s)) ELSE un.s)],
                 LAMBDA l :
                   IF i > 0 /\ l.issuer = << >> THEN ParseURLError("invalid label")
                   ELSE IF l.account = << >> THEN ParseURLError("invalid label")
                   ELSE ParsedURL([out EXCEPT !.Issuer = l.issuer, !.Account = l.account]))))

ParamAlgorithm == Str(<< "a", "l", "g", "o", "r", "i", "t", "h", "m" >>)

ParamIssuer == Str(<< "i", "s", "s", "u", "e", "r" >>)

ParamSecretName == Str(<< "s", "e", "c", "r", "e", "t" >>)

ParamCounter == Str(<< "c", "o", "u", "n", "t", "e", "r" >>)

ParamDigits == Str(<< "d", "i", "g", "i", "t", "s" >>)

ParamPeriod == Str(<< "p", "e", "r", "i", "o", "d" >>)

\* A loop body that reports a value that is not an integer before it looks
\* at the name of the parameter.
parseParamIntegerFirst(out, param) ==
    Let(SplitN2(param, << Ord["="] >>), LAMBDA kv :
      Let(PathUnescape(IF Len(kv) = 1 THEN << >> ELSE kv[2]), LAMBDA un :
        IF ~un.ok THEN ParseURLError("invalid value")
        ELSE IF kv[1] = ParamAlgorithm THEN ParsedURL([out EXCEPT !.Algorithm = ToUpper(un.s)])
        ELSE IF kv[1] = ParamIssuer THEN ParsedURL([out EXCEPT !.Issuer = un.s])
        ELSE IF kv[1] = ParamSecretName THEN ParsedURL([out EXCEPT !.RawSecret = un.s])
        ELSE Let(ParseUint(un.s), LAMBDA n :
               IF ~n.ok THEN ParseURLError("invalid integer value")
               ELSE IF kv[1] \notin {ParamCounter, ParamDigits, ParamPeriod}
               THEN ParseURLError("invalid parameter")
               ELSE IF kv[1] = ParamCounter THEN ParsedURL([out EXCEPT !.Counter = n.n])
               ELSE IF kv[1] = ParamDigits THEN ParsedURL([out EXCEPT !.Digits = n.n])
               ELSE ParsedURL([out EXCEPT !.Period = n.n]))))

\* The body of ParseURL's loop over the parameters, for one parameter.
parseParam(out, param) ==
    Let(SplitN2(param, << Ord["="] >>), LAMBDA kv :
      Let(PathUnescape(IF Len(kv) = 1 THEN << >> ELSE kv[2]), LAMBDA un :
        IF ~un.ok THEN ParseURLError("invalid value")
        ELSE IF kv[1] = ParamAlgorithm THEN ParsedURL([out EXCEPT !.Algorithm = ToUpper(un.s)])
        ELSE IF kv[1] = ParamIssuer THEN ParsedURL([out EXCEPT !.Issuer = un.s])
        ELSE IF kv[1] = ParamSecretName THEN ParsedURL([out EXCEPT !.RawSecret = un.s])
        ELSE Let(ParseUint(un.s), LAMBDA n :
               IF kv[1] \notin {ParamCounter, ParamDigits, ParamPeriod}
               THEN ParseURLError("invalid parameter")
               ELSE IF ~n.ok THEN ParseURLError("invalid integer value")
               ELSE IF kv[1] = ParamCounter THEN ParsedURL([out EXCEPT !.Counter = n.n])
               ELSE IF kv[1] = ParamDigits THEN ParsedURL([out EXCEPT !.Digits = n.n])
               ELSE ParsedURL([out EXCEPT !.Period = n.n]))))

RECURSIVE parseParams(_, _)
parseParams(out, ps) ==
    IF ps = << >> THEN ParsedURL(out)
    ELSE Let(parseParam(out, Head(ps)), LAMBDA r :
           IF r.ok THEN parseParams(r.u, Tail(ps)) ELSE r)

SchemeSep == Str(<< ":", "/", "/" >>)

SchemeOtpauth == Str(<< "o", "t", "p", "a", "u", "t", "h" >>)

defaultAlgorithm == AlgSHA1

defaultDigits == 6

defaultPeriod == 30

\* otpauth.ParseURL that accepts the type totp only
ParseURLTotpOnly(s) ==
    Let(SplitN2(s, SchemeSep), LAMBDA sch :
      IF Len(sch) = 2 /\ sch[1] # SchemeOtpauth THEN ParseURLError("invalid scheme")
      ELSE Let(SplitN2(IF Len(sch) = 2 THEN sch[2] ELSE s, << Ord["?"] >>), LAMBDA q :
        Let(SplitN2(TrimPrefix(q[1], Str(<< "/", "/" >>)), << Ord["/"] >>), LAMBDA ps :
          IF Len(ps) # 2 \/ ToLower(ps[1]) # TypeTotp \/ ps[2] = << >>
          THEN ParseURLError("invalid type/label")
          ELSE Let(parseLabel(URL(ToLower(ps[1]), << >>, << >>, << >>, defaultAlgorithm,
                                  defaultDigits, defaultPeriod, 0), ps[2]),
                   LAMBDA r :
                     IF ~r.ok \/ Len(q) = 1 \/ q[2] = << >> THEN r
                     ELSE parseParams(r.u, Split(q[2], << Ord["&"] >>))))))

\* otpauth.ParseURL: sch is s split at the scheme, q the rest split into
\* TYPE/LABEL and PARAMS, ps the former split into TYPE and LABEL.
ParseURL(s) ==
    Let(SplitN2(s, SchemeSep), LAMBDA sch :
      IF Len(sch) = 2 /\ sch[1] # SchemeOtpauth THEN ParseURLError("invalid scheme")
      ELSE Let(SplitN2(IF Len(sch) = 2 THEN sch[2] ELSE s, << Ord["?"] >>), LAMBDA q :
        Let(SplitN2(TrimPrefix(q[1], Str(<< "/", "/" >>)), << Ord["/"] >>), LAMBDA ps :
          IF Len(ps) # 2 \/ ps[1] = << >> \/ ps[2] = << >>
          THEN ParseURLError("invalid type/label")
          ELSE Let(parseLabel(URL(ToLower(ps[1]), << >>, << >>, << >>, defaultAlgorithm,
                                  defaultDigits, defaultPeriod, 0), ps[2]),
                   LAMBDA r :
                     IF ~r.ok \/ Len(q) = 1 \/ q[2] = << >> THEN r
                     ELSE parseParams(r.u, Split(q[2], << Ord["&"] >>))))))

ParsedLine(url) == [ok |-> TRUE, u |-> url, err |-> "nil", line |-> 0]

LineError(err, lineNum) == [ok |-> FALSE, u |-> ParseURLError(err).u, err |-> err, line |-> lineNum]

\* A parseConfigLine whose errors count the lines from 0.
parseConfigLineFromZero(line, lineNum) ==
    Let(SplitN2(line, << Ord[":"] >>), LAMBDA kv :
      IF HasPrefix(line, SchemeOtpauth \o SchemeSep)
      THEN Let(ParseURL(line), LAMBDA r :
             IF r.ok THEN ParsedLine(r.u) ELSE LineError("invalid otpauth URL", lineNum - 1))
      ELSE IF Len(kv) # 2 THEN LineError("invalid format", lineNum - 1)
      ELSE ParsedLine(URL(TypeTotp, << >>, TrimSpace(kv[1]), TrimSpace(kv[2]), << >>, 0, 0, 0)))

\* parseConfigLine; an error carries the number of the line
parseConfigLine(line, lineNum) ==
    IF HasPrefix(line, SchemeOtpauth \o SchemeSep)
    THEN Let(ParseURL(line), LAMBDA r :
           IF r.ok THEN ParsedLine(r.u) ELSE LineError("invalid otpauth URL", lineNum))
    ELSE Let(SplitN2(line, << Ord[":"] >>), LAMBDA kv :
           IF Len(kv) # 2 THEN LineError("invalid format", lineNum)
           ELSE ParsedLine(URL(TypeTotp, << >>, TrimSpace(kv[1]), TrimSpace(kv[2]), << >>,
                               0, 0, 0)))

\* The loop of ParseConfig over lines[i..]
RECURSIVE parseLines(_, _, _)
parseLines(lines, i, out) ==
    IF i > Len(lines) THEN [ok |-> TRUE, urls |-> out, err |-> "nil", line |-> 0]
    ELSE Let(TrimSpace(lines[i]), LAMBDA trim :
           IF trim = << >> THEN parseLines(lines, i + 1, out)
           ELSE Let(parseConfigLine(trim, i), LAMBDA r :
                  IF ~r.ok THEN [ok |-> FALSE, urls |-> << >>, err |-> r.err, line |-> r.line]
                  ELSE parseLines(lines, i + 1, Append(out, r.u))))

\* A ParseConfig that takes a repeated account name for one account.
ParseConfigDropsRepeatedName(data) ==
    Let(parseLines(Split(data, << 10 >>), 1, << >>), LAMBDA r :
      IF Len(r.urls) >= 2 /\ r.urls[1].Account = r.urls[2].Account
      THEN [r EXCEPT !.urls = Tail(r.urls)]
      ELSE r)

\* ParseConfig
ParseConfig(data) == parseLines(Split(data, << 10 >>), 1, << >>)

----------------------------------------------------------------------------
(* Code generation: the calls of the package's Codes functions             *)

Zero64 == U64(0, 0, 0, 0)
Max64 == U64(65535, 65535, 65535, 65535)

\* Time steps around the ends of the 64-bit range and around limb carries;
\* 51790421 is the time slice of the package's test.
TimeSteps ==
    { Zero64, U64(0, 0, 0, 1), Max64, U64(65535, 65535, 65535, 65534),
      U64(0, 0, 1, 0), U64(0, 0, 0, 65535), U64(0, 1, 0, 0), U64(0, 0, 790, 16981) }

SecretABCDEFGH == Str(<< "A", "B", "C", "D", "E", "F", "G", "H" >>)
SecretBlargh == Str(<< "b", "l", "a", "r", "g", "h", "!" >>)

Secrets ==
    { SecretABCDEFGH,
      SecretBlargh,
      EmptyString,
      Str(<< "a", "b", "c", "d", " ", "e", "f", "g", "h" >>),
      Str(<< "M", "Z", "X", "W", "6" >>),
      Str(<< "M", "Z", "X", "W", "6", "=", "=", "=" >>),
      Str(<< "A" >>),
      Str(<< "A", "B", "C" >>),
      Str(<< "A", "B", "=", "C" >>),
      Str(<< "A", "B", "1", "D" >>),
      Str(<< "A", "B", "C", "D", "E", "F", "G", "H", "2", "3" >>) }

AccountTypes == { TypeTotp, TypeHotp, Str(<< "T", "O", "T", "P" >>), EmptyString }

AlgorithmNames ==
    { EmptyString, AlgSHA1, AlgSHA256, AlgSHA512,
      Str(<< "M", "D", "5" >>), Str(<< "s", "h", "a", "1" >>) }

DigitCounts == { 0, 1, 6, 8 }

AccountName == Str(<< "a", "c", "m", "e" >>)

CodesAccounts ==
    { URL(t, EmptyString, AccountName, sec, a, d, 0, 0) :
        t \in AccountTypes, sec \in Secrets, a \in AlgorithmNames, d \in DigitCounts }

CodesInit ==
    /\ u \in CodesAccounts
    /\ timeStep \in TimeSteps
    /\ called = "none"
    /\ ret = NoResult
    /\ CodecIdle
    /\ FileIdle
    /\ ParseIdle
    /\ CliIdle

CallCodesAtTimeStep ==
    /\ called = "none"
    /\ called' = "CodesAtTimeStep"
    /\ ret' = CodesAtTimeStep(u, timeStep)
    /\ UNCHANGED << u, timeStep, exceptCodes >>

CallCodesOfURL ==
    /\ called = "none"
    /\ called' = "CodesOfURL"
    /\ ret' = CodesOfURL(u, timeStep)
    /\ UNCHANGED << u, timeStep, exceptCodes >>

CallCodesOfSecret ==
    /\ called = "none"
    /\ called' = "CodesOfSecret"
    /\ ret' = CodesOfSecret(u.RawSecret, timeStep)
    /\ UNCHANGED << u, timeStep, exceptCodes >>

CodesNext == CallCodesAtTimeStep \/ CallCodesOfURL \/ CallCodesOfSecret

SpecCodes == CodesInit /\ [][CodesNext]_vars


----------------------------------------------------------------------------
(* Code generation: Config.HOTP for all digit counts                       *)

\* Digit counts up to and beyond the twenty zeros formatDecimal pads from,
\* the unset count and a negative one.
HotpDigitCounts == { 0 - 1, 0, 1, 6, 8, 9, 10, 11, 20, 21, 22, 30, 31 }

HotpSecrets ==
    { SecretABCDEFGH, Str(<< "M", "Z", "X", "W", "6" >>), Str(<< "A", "B" >>),
      Str(<< "A", "B", "C", "D", "E", "F", "G", "H", "2", "3" >>) }

\* The Config CodesAtTimeStep makes of an account
ConfigOf(acct) ==
    [Key |-> ParseKey(acct.RawSecret).bytes, Hash |-> pickAlgorithm(acct.Algorithm).hash,
     Digits |-> acct.Digits]

HotpInit ==
    /\ u \in { URL(TypeTotp, EmptyString, AccountName, sec, a, d, 0, 0) :
                  sec \in HotpSecrets, a \in { EmptyString, AlgSHA256, AlgSHA512 },
                  d \in HotpDigitCounts }
    /\ timeStep \in TimeSteps
    /\ called = "none"
    /\ ret = NoResult
    /\ CodecIdle
    /\ FileIdle
    /\ ParseIdle
    /\ CliIdle

\* Config.HOTP(timeStep); the code is kept in ret.curr
CallHOTP ==
    /\ called = "none"
    /\ called' = "HOTP"
    /\ \E r \in { HOTP(ConfigOf(u), timeStep) } :
          ret' = IF r.panic THEN CodesPanic ELSE CodesResult(EmptyString, r.s, EmptyString, "nil")
    /\ UNCHANGED << u, timeStep, exceptCodes >>

HotpNext == CallHOTP

SpecHotp == HotpInit /\ [][HotpNext]_vars


----------------------------------------------------------------------------
(* Code generation: Config.HOTP with SHA-1 itself                          *)

\* The secret of the test vectors of RFC 4226, "12345678901234567890".
SecretRFC4226 ==
    Str(<< "G", "E", "Z", "D", "G", "N", "B", "V", "G", "Y", "3", "T", "Q", "O", "J", "Q",
           "G", "E", "Z", "D", "G", "N", "B", "V", "G", "Y", "3", "T", "Q", "O", "J", "Q" >>)

\* 51790421, the time step of the package's test
TestTimeStep == U64(0, 0, 790, 16981)

KnownTimeSteps ==
    { U64(0, 0, 0, i) : i \in 0..9 } \cup { U64Dec(TestTimeStep), TestTimeStep, U64Inc(TestTimeStep) }

KnownInit ==
    /\ u \in { URL(TypeTotp, EmptyString, AccountName, sec, AlgSHA1, d, 0, 0) :
                  sec \in { SecretABCDEFGH, SecretRFC4226 }, d \in { 0, 6, 8 } }
    /\ timeStep \in KnownTimeSteps
    /\ called = "none"
    /\ ret = NoResult
    /\ CodecIdle
    /\ FileIdle
    /\ ParseIdle
    /\ CliIdle

\* Config.HOTP(timeStep) of a Config without a Hash, which is SHA-1; the
\* code is kept in ret.curr
CallHOTPSha1 ==
    /\ called = "none"
    /\ called' = "HOTP"
    /\ \E r \in { HOTP([Key |-> ParseKey(u.RawSecret).bytes, Hash |-> "crypto/sha1",
                        Digits |-> u.Digits], timeStep) } :
          ret' = IF r.panic THEN CodesPanic ELSE CodesResult(EmptyString, r.s, EmptyString, "nil")
    /\ UNCHANGED << u, timeStep, exceptCodes >>

KnownNext == CallHOTPSha1

SpecKnown == KnownInit /\ [][KnownNext]_vars


----------------------------------------------------------------------------
(* The command's own code path of its first version: normalizeSecret and   *)
(* AuthCode                                                                *)

\* strings.Replace(sec, " ", "", -1)
RemoveSpaces(s) == SelectSeq(s, LAMBDA c : c # 32)

\* normalizeSecret
normalizeSecret(sec) ==
    Let(ToUpper(RemoveSpaces(sec)), LAMBDA noPadding :
      Let(8 - (Len(noPadding) % 8), LAMBDA padLength :
        IF padLength < 8 THEN noPadding \o Repeat(PadChar, padLength) ELSE noPadding))

\* AuthCode: ts is the int64 time slice as its 64 bits
AuthCode(sec, ts) ==
    Let(DecodeString(sec), LAMBDA key :
      IF ~key.ok THEN CodesError("illegal base32 data")
      ELSE Let(FormatUint(Truncate(HmacSum("sha1", key.bytes, PutUint64(ts))) % 1000000),
               LAMBDA res :
                 CodesResult(EmptyString, Repeat(48, 6 - Len(res)) \o res, EmptyString, "nil")))

\* Secrets in several spellings: lower case, spaces, a tab, a line end,
\* padding; secrets that are not base32.
SecretSpellings ==
    { SecretABCDEFGH,
      Str(<< "a", "b", "c", "d", "e", "f", "g", "h" >>),
      Str(<< "a", "b", " ", "c", "d", " ", " ", "E", "F", "g", "h", " " >>),
      Str(<< "a", "b", "\t", "c", "d", "e", "f", "g", "h" >>),
      Str(<< "A", "B", "C", "D", "E", "F", "G", "H", "\n" >>),
      Str(<< "M", "Z", "X", "W", "6" >>),
      Str(<< "m", "z", " ", "x", "w", "6" >>),
      Str(<< "M", "Z", "X", "W", "6", "=", "=", "=" >>),
      Str(<< "m", "\t", "z", "x", "w", "6" >>),
      SecretBlargh,
      Str(<< "A" >>),
      EmptyString }

SecretInit ==
    /\ u \in { URL(TypeTotp, EmptyString, AccountName, sec, EmptyString, 0, 0, 0) :
                  sec \in SecretSpellings }
    /\ timeStep \in TimeSteps
    /\ called = "none"
    /\ ret = NoResult
    /\ CodecIdle
    /\ FileIdle
    /\ ParseIdle
    /\ CliIdle

\* otp.ParseKey; the key is kept in ret.curr
CallParseKey ==
    /\ called = "none"
    /\ called' = "ParseKey"
    /\ \E r \in { ParseKey(u.RawSecret) } :
          ret' = IF r.ok THEN CodesResult(EmptyString, r.bytes, EmptyString, "nil")
                 ELSE CodesError("illegal base32 data")
    /\ UNCHANGED << u, timeStep, exceptCodes >>

\* normalizeSecret; the cleaned secret is kept in ret.curr
CallNormalizeSecret ==
    /\ called = "none"
    /\ called' = "normalizeSecret"
    /\ ret' = CodesResult(EmptyString, normalizeSecret(u.RawSecret), EmptyString, "nil")
    /\ UNCHANGED << u, timeStep, exceptCodes >>

\* AuthCode(normalizeSecret(sec), ts), as the command called it
CallAuthCode ==
    /\ called = "none"
    /\ called' = "AuthCode"
    /\ ret' = AuthCode(normalizeSecret(u.RawSecret), timeStep)
    /\ UNCHANGED << u, timeStep, exceptCodes >>

SecretNext == CallParseKey \/ CallNormalizeSecret \/ CallAuthCode \/ CallCodesOfSecret

SpecSecret == SecretInit /\ [][SecretNext]_vars

----------------------------------------------------------------------------
(* The codec: calls of encryptConfig and of the decrypting functions       *)

ConfigLine16 ==
    Str(<< "a", "c", "m", "e", ":", "A", "B", "C", "D", "E", "F", "G", "H", "2", "3", "\n" >>)

\* Plaintexts of 0, 1, 2, 15, 16, 17 and 32 bytes, some ending like padding.
Plaintexts ==
    { << >>, Str(<< "a" >>), << 5, 1 >>, SubSeq(ConfigLine16, 1, 15), ConfigLine16,
      ConfigLine16 \o << 10 >>, ConfigLine16 \o ConfigLine16, Repeat(16, 16) }

PasswordX == Str(<< "x" >>)

Passwords == { << >>, PasswordX, Str(<< "p", "w" >>) }

Salt1 == << 1, 2, 3, 4, 5, 6, 7, 8 >>

Salts == { Salt1, << 0, 0, 0, 0, 0, 0, 0, 255 >> }

\* Buffers a ciphertext may decrypt to: their last byte is 0, a valid padding
\* length, more than a block, more than the buffer, or does not match the
\* bytes before it; the empty buffer; half a block.
PaddedBuffers ==
    { Repeat(65, 15) \o << 0 >>, Repeat(65, 15) \o << 1 >>, Repeat(16, 16),
      Repeat(17, 32), Repeat(17, 16), Repeat(32, 32), Repeat(65, 13) \o << 2, 3, 3 >>,
      Repeat(65, 15) \o << 255 >>, << >>, Repeat(65, 8) }

\* The bytes, in the format of the file, that decrypt to buffer b under the
\* password and the salt; a buffer of no whole number of blocks stands for
\* a ciphertext of that length.
Prepared(b, passwd, salt) ==
    LET k == deriveKeyAndIV(passwd, salt)
    IN  saltedPrefix \o salt \o (IF FullBlocks(b) THEN CBCEncrypt(k.key, k.iv, b) ELSE b)

CodecInit ==
    /\ \/ /\ cin \in [kind : {"config"}, plain : Plaintexts, passwd : Passwords, salt : Salts]
          /\ enc = << >>
       \/ /\ cin \in [kind : {"prepared"}, plain : PaddedBuffers, passwd : Passwords,
                       salt : {Salt1}]
          /\ enc = Prepared(cin.plain, cin.passwd, cin.salt)
       \/ /\ cin = [kind |-> "short", plain |-> << >>, passwd |-> << >>, salt |-> << 1, 2, 3 >>]
          /\ enc = saltedPrefix \o << 1, 2, 3 >>
    /\ dec = NotDecrypted
    /\ CodesIdle
    /\ FileIdle
    /\ ParseIdle
    /\ CliIdle

CallEncryptConfig ==
    /\ cin.kind = "config"
    /\ enc = << >>
    /\ enc' = encryptConfig(cin.salt, cin.passwd, cin.plain)
    /\ UNCHANGED << cin, dec, exceptCodec >>

DecryptedBy(by, passwd, r) ==
    [by |-> by, passwd |-> passwd, ok |-> r.ok, bytes |-> r.bytes, err |-> r.err,
     panic |-> r.panic]

CallDecryptConfig ==
    /\ enc # << >>
    /\ dec.by = "none"
    /\ \E passwd \in Passwords :
          LET r == decryptConfig(enc, passwd)
          IN  /\ dec' = DecryptedBy("decryptConfig", passwd, r)
              /\ enc' = r.buf
    /\ UNCHANGED << cin, exceptCodec >>

CallDecryptLegacy ==
    /\ enc # << >>
    /\ dec.by = "none"
    /\ \E passwd \in Passwords :
          LET r == decryptLegacy(enc, passwd)
          IN  /\ dec' = DecryptedBy("LoadConfigFile", passwd, r)
              /\ enc' = r.buf
    /\ UNCHANGED << cin, exceptCodec >>

CodecNext == CallEncryptConfig \/ CallDecryptConfig \/ CallDecryptLegacy

SpecCodec == CodecInit /\ [][CodecNext]_vars

----------------------------------------------------------------------------
(* The config file: calls of WriteConfigFile and LoadConfigFile            *)

MaxWrites == 2

EncryptedLine16 == encryptConfig(Salt1, PasswordX, ConfigLine16)

\* The file at the start: absent, plaintext, encrypted, encrypted and cut
\* short or with a ciphertext of no whole number of blocks, read-only.
InitialFiles ==
    { NoFile,
      File(ConfigLine16, ModeOwnerRW),
      File(<< >>, ModeWide),
      File(EncryptedLine16, ModeOwnerRW),
      File(EncryptedLine16, ModeWide),
      File(saltedPrefix \o << 1, 2, 3 >>, ModeOwnerRW),
      File(saltedPrefix \o Salt1 \o << 9, 9, 9, 9, 9 >>, ModeOwnerRW),
      File(ConfigLine16, ModeReadOnly),
      File(EncryptedLine16, ModeReadOnly) }

\* The new contents handed to WriteConfigFile; two of them begin with the
\* marker of an encrypted file.
NewConfigs ==
    { << >>, ConfigLine16, ConfigLine16 \o << 10 >>, saltedPrefix,
      saltedPrefix \o Str(<< "x", ":", "A", "B", "C", "D", "E", "F", "G", "H" >>),
      saltedPrefix \o Salt1 \o Repeat(65, 16) }

FilePasswords == { PasswordX, Str(<< "p", "w" >>) }

GetPassOutcomes == { GotPass(passwd) : passwd \in FilePasswords } \cup { NoPass }

FileInit ==
    /\ file \in InitialFiles
    /\ file0 = file
    /\ wr = NotWritten
    /\ ld = NotLoaded
    /\ nWrites = 0
    /\ CodesIdle
    /\ CodecIdle
    /\ ParseIdle
    /\ CliIdle

CallWriteConfigFile ==
    /\ nWrites < MaxWrites
    /\ \E passwd \in FilePasswords, newConfig \in NewConfigs :
          LET r == WriteConfigFile(file, passwd, newConfig)
          IN  /\ file' = r.file
              /\ wr' = [passwd |-> passwd, config |-> newConfig, err |-> r.err, before |-> file]
    /\ nWrites' = nWrites + 1
    /\ ld' = NotLoaded
    /\ UNCHANGED << file0, exceptFile >>

CallLoadConfigFile ==
    /\ \E getPass \in GetPassOutcomes :
          LET r == LoadConfigFile(file, getPass)
          IN  ld' = [getPass |-> getPass, ok |-> r.ok, bytes |-> r.bytes, err |-> r.err,
                     panic |-> r.panic, calls |-> r.calls,
                     after |-> IF nWrites > 0 THEN "write" ELSE "start"]
    /\ UNCHANGED << file, file0, wr, nWrites, exceptFile >>

FileNext == CallWriteConfigFile \/ CallLoadConfigFile

SpecFile == FileInit /\ [][FileNext]_vars

----------------------------------------------------------------------------
(* Parsing a config and generating codes for the accounts parsed           *)

UrlTypes ==
    { Str(<< "t", "o", "t", "p" >>), Str(<< "h", "o", "t", "p" >>), Str(<< "H", "O", "T", "P" >>),
      Str(<< "T", "o", "t", "p" >>), Str(<< "x" >>), << >> }

UrlLabels ==
    { Str(<< "a", "c", "m", "e" >>),
      Str(<< "I", "s", "s", ":", "a", "c", "m", "e" >>),
      Str(<< "I", "s", "s", "%", "3", "A", "%", "2", "0", "a", "c", "m", "e" >>),
      Str(<< ":", "a", "c", "m", "e" >>),
      Str(<< "a", "%", "z", "z" >>),
      Str(<< "I", "s", "s", ":" >>),
      Str(<< "%", "2", "0", "I", "s", "s", "%", "2", "0", ":", "a", ":", "b" >>),
      << >> }

ParamSecret == Str(<< "s", "e", "c", "r", "e", "t", "=" >>) \o SecretABCDEFGH

UrlParams ==
    { << >>,
      ParamSecret,
      ParamSecret \o Str(<< "&", "a", "l", "g", "o", "r", "i", "t", "h", "m", "=", "s", "h", "a",
                           "2", "5", "6" >>),
      Str(<< "s", "e", "c", "r", "e", "t", "=", "!", "!", "&", "a", "l", "g", "o", "r", "i", "t",
             "h", "m", "=", "m", "d", "5" >>),
      ParamSecret \o Str(<< "&", "d", "i", "g", "i", "t", "s", "=", "8", "&", "p", "e", "r", "i",
                           "o", "d", "=", "6", "0", "&", "c", "o", "u", "n", "t", "e", "r", "=",
                           "5" >>),
      Str(<< "d", "i", "g", "i", "t", "s", "=", "x" >>),
      Str(<< "b", "o", "g", "u", "s", "=", "x" >>),
      Str(<< "b", "o", "g", "u", "s", "=", "5" >>),
      Str(<< "b", "o", "g", "u", "s" >>),
      Str(<< "b", "o", "g", "u", "s", "=", "%", "z", "z" >>),
      Str(<< "c", "o", "u", "n", "t", "e", "r", "=", "-", "1" >>),
      Str(<< "p", "e", "r", "i", "o", "d", "=" >>),
      ParamSecret \o Str(<< "&", "i", "s", "s", "u", "e", "r", "=", "O", "%", "2", "6", "Y" >>),
      ParamSecret \o Str(<< "&", "i", "s", "s", "u", "e", "r", "=" >>) }

\* TYPE/LABEL?PARAMS
UrlText(type, label, params) ==
    type \o << Ord["/"] >> \o label
        \o (IF params = << >> THEN << >> ELSE << Ord["?"] >> \o params)

PlainLine == Str(<< "a", "c", "m", "e", ":", "A", "B", "C", "D", "E", "F", "G", "H" >>)

\* The text a form of input makes of a URL: the URL alone, with or without
\* its scheme, or a config holding it after a blank line and before a
\* name:secret line.
InputText(form, url) ==
    CASE form = "url" -> SchemeOtpauth \o SchemeSep \o url
      [] form = "bare url" -> url
      [] form = "config" ->
            << 10 >> \o SchemeOtpauth \o SchemeSep \o url \o << 10 >> \o PlainLine \o << 10 >>
      [] form = "other scheme" -> Str(<< "h", "t", "t", "p" >>) \o SchemeSep \o url

ParseTimeSteps == { Zero64, U64(0, 0, 790, 16981) }

ParseInit ==
    /\ parts \in [form : {"url", "bare url", "config", "other scheme"}, type : UrlTypes,
                   label : UrlLabels, params : UrlParams]
    /\ config = InputText(parts.form, UrlText(parts.type, parts.label, parts.params))
    /\ parsed = NotParsed
    /\ CodesIdle
    /\ CodecIdle
    /\ FileIdle
    /\ CliIdle

CallParseURL ==
    /\ parsed.by = "none"
    /\ parts.form # "config"
    /\ LET r == ParseURL(config)
       IN  parsed' = [by |-> "ParseURL", ok |-> r.ok, urls |-> IF r.ok THEN << r.u >> ELSE << >>,
                      err |-> r.err, line |-> 0]
    /\ UNCHANGED << parts, config, codesVars, exceptParse >>

CallParseConfig ==
    /\ parsed.by = "none"
    /\ LET r == ParseConfig(config)
       IN  parsed' = [by |-> "ParseConfig", ok |-> r.ok, urls |-> r.urls, err |-> r.err,
                      line |-> r.line]
    /\ UNCHANGED << parts, config, codesVars, exceptParse >>

\* CodesAtTimeStep for one of the accounts the parser returned.
CallCodesOfParsed ==
    /\ parsed.ok
    /\ called = "none"
    /\ \E i \in 1..Len(parsed.urls), ts \in ParseTimeSteps :
          /\ u' = parsed.urls[i]
          /\ timeStep' = ts
          /\ ret' = CodesAtTimeStep(parsed.urls[i], ts)
    /\ called' = "CodesAtTimeStep"
    /\ UNCHANGED << parseVars, exceptParse >>

ParseNext == CallParseURL \/ CallParseConfig \/ CallCodesOfParsed

SpecParse == ParseInit /\ [][ParseNext]_vars

----------------------------------------------------------------------------
(* Parsing of config files of several lines                                *)

MaxLines == 3

LineBlank == << >>
LineSpaces == Str(<< " ", "\t" >>)
LineOther == Str(<< " ", "O", "t", "h", "e", "r", " ", ":", " ", "M", "Z", "X", "W", "6", " " >>)
LineColons == Str(<< "a", ":", "b", ":", " ", "c" >>)
LineNoName == Str(<< ":", "A", "B", "C", "D", "E", "F", "G", "H" >>)
LineNoSecret == Str(<< "a", "c", "m", "e", ":" >>)
LineNoColon == Str(<< "a", "c", "m", "e" >>)
LineUrl == SchemeOtpauth \o SchemeSep \o Str(<< "h", "o", "t", "p", "/", "I", "s", "s", ":", "a", "c", "m", "e", "?" >>) \o ParamSecret
LineBadUrl == SchemeOtpauth \o SchemeSep \o Str(<< "t", "o", "t", "p", "/", "?" >>) \o ParamSecret

\* The lines config files are made of: blank ones, name:secret lines (one
\* of them twice, for duplicate names), otpauth URLs and malformed lines.
LineTexts ==
    { LineBlank, LineSpaces, PlainLine, LineOther, LineColons, LineNoName, LineNoSecret,
      LineNoColon, LineUrl, LineBadUrl }

\* The file whose lines are the given ones
RECURSIVE JoinLines(_)
JoinLines(lines) ==
    IF Len(lines) = 1 THEN lines[1]
    ELSE lines[1] \o << 10 >> \o JoinLines(Tail(lines))

LinesInit ==
    /\ \E n \in 1..MaxLines : \E lines \in [1..n -> LineTexts] :
          /\ parts = [form |-> "lines", lines |-> lines]
          /\ config = JoinLines(lines)
    /\ parsed = NotParsed
    /\ CodesIdle
    /\ CodecIdle
    /\ FileIdle
    /\ CliIdle

LinesNext == CallParseConfig \/ CallCodesOfParsed

SpecLines == LinesInit /\ [][LinesNext]_vars

----------------------------------------------------------------------------
(* URL.String and the round trip through ParseURL                          *)

\* The digit of "0123456789ABCDEF" for a value below 16
HexDigit(n) == IF n < 10 THEN 48 + n ELSE 55 + n

\* url.PathEscape escapes every byte but the letters, the digits, the marks
\* - _ . ~ and the reserved characters $ & + : = @
shouldEscape(c) ==
    ~ \/ (c >= 97 /\ c <= 122) \/ (c >= 65 /\ c <= 90) \/ (c >= 48 /\ c <= 57)
      \/ c \in {45, 95, 46, 126}
      \/ c \in {36, 38, 43, 58, 61, 64}

\* url.PathEscape
RECURSIVE PathEscape(_)
PathEscape(s) ==
    IF s = << >> THEN << >>
    ELSE (IF shouldEscape(s[1])
          THEN << 37, HexDigit(s[1] \div 16), HexDigit(s[1] % 16) >>
          ELSE << s[1] >>) \o PathEscape(Tail(s))

\* strings.TrimRight(s, "=")
RECURSIVE TrimRightPad(_)
TrimRightPad(s) ==
    IF s # << >> /\ s[Len(s)] = PadChar THEN TrimRightPad(SubSeq(s, 1, Len(s) - 1)) ELSE s

\* strings.Join(params, "&")
RECURSIVE JoinParams(_)
JoinParams(params) ==
    IF Len(params) = 1 THEN params[1]
    ELSE params[1] \o << 38 >> \o JoinParams(Tail(params))

\* URL.labelString
labelString(url) ==
    IF url.Issuer # << >> THEN PathEscape(url.Issuer) \o << 58 >> \o PathEscape(url.Account)
    ELSE PathEscape(url.Account)

\* The parameters URL.String encodes: those with non-default values
stringParams(url, typ) ==
    (IF ToUpper(url.Algorithm) \notin {<< >>, AlgSHA1}
     THEN << ParamAlgorithm \o << 61 >> \o PathEscape(ToUpper(url.Algorithm)) >> ELSE << >>)
    \o (IF url.Counter > 0 \/ typ = TypeHotp
        THEN << ParamCounter \o << 61 >> \o FormatUint(url.Counter) >> ELSE << >>)
    \o (IF url.Digits > 0 /\ url.Digits # defaultDigits
        THEN << ParamDigits \o << 61 >> \o FormatUint(url.Digits) >> ELSE << >>)
    \o (IF url.Issuer # << >>
        THEN << ParamIssuer \o << 61 >> \o PathEscape(url.Issuer) >> ELSE << >>)
    \o (IF url.Period > 0 /\ url.Period # defaultPeriod
        THEN << ParamPeriod \o << 61 >> \o FormatUint(url.Period) >> ELSE << >>)
    \o (IF url.RawSecret # << >>
        THEN << ParamSecretName \o << 61 >>
                  \o PathEscape(ToUpper(JoinFields(TrimRightPad(url.RawSecret)))) >>
        ELSE << >>)

\* URL.String
String(url) ==
    Let(ToLower(url.Type), LAMBDA typ :
      Let(stringParams(url, typ), LAMBDA params :
        SchemeOtpauth \o SchemeSep \o typ \o << 47 >> \o labelString(url)
            \o (IF params = << >> THEN << >> ELSE << 63 >> \o JoinParams(params))))

StringTypes == { TypeTotp, TypeHotp, Str(<< "T", "O", "T", "P" >>) }

StringIssuers ==
    { << >>, Str(<< "I", "s", "s" >>), Str(<< "O", "&", "Y" >>), Str(<< "I", ":", "s" >>),
      Str(<< "x", "/", "y", "?", "z", "=", "w" >>), Str(<< "a", " ", "b" >>) }

StringAccounts ==
    { AccountName, Str(<< "a", ":", "b" >>), Str(<< " ", "a", "c", "m", "e" >>),
      Str(<< "a", " ", "b", "/", "c", "?", "d", "=", "e", "&", "f" >>) }

StringSecrets == { << >>, SecretABCDEFGH, Str(<< "m", "z", "x", "w", "6", "=", "=", "=" >>) }

StringAlgorithms == { << >>, AlgSHA1, Str(<< "s", "h", "a", "2", "5", "6" >>) }

\* Accounts of a non-empty type and account name
StringURLs ==
    { URL(t, i, a, s, g, d, p, c) :
        t \in StringTypes, i \in StringIssuers, a \in StringAccounts, s \in StringSecrets,
        g \in StringAlgorithms, d \in {0, defaultDigits, 8}, p \in {0, 60}, c \in {0, 5} }

StringInit ==
    /\ u \in StringURLs
    /\ timeStep = Zero64
    /\ called = "none"
    /\ ret = NoResult
    /\ parts = [form |-> "account"]
    /\ config = << >>
    /\ parsed = NotParsed
    /\ CodecIdle
    /\ FileIdle
    /\ CliIdle

CallString ==
    /\ parts.form = "account"
    /\ parts' = [form |-> "string"]
    /\ config' = String(u)
    /\ UNCHANGED << parsed, codesVars, exceptParse >>

\* ParseURL of the string URL.String made
CallParseURLOfString ==
    /\ parts.form = "string"
    /\ parsed.by = "none"
    /\ \E r \in { ParseURL(config) } :
          parsed' = [by |-> "ParseURL", ok |-> r.ok, urls |-> IF r.ok THEN << r.u >> ELSE << >>,
                     err |-> r.err, line |-> 0]
    /\ UNCHANGED << parts, config, codesVars, exceptParse >>

StringNext == CallString \/ CallParseURLOfString

SpecString == StringInit /\ [][StringNext]_vars

----------------------------------------------------------------------------
(* The command line: the functions of the main package                     *)

DefaultPeriod == 30

\* strings.Contains
Contains(s, substr) == IndexFrom(s, substr, 1) > 0

\* strings.TrimSuffix
TrimSuffix(s, suffix) ==
    IF Len(s) >= Len(suffix) /\ SubSeq(s, (Len(s) - Len(suffix)) + 1, Len(s)) = suffix
    THEN SubSeq(s, 1, Len(s) - Len(suffix))
    ELSE s

matchAccount(pattern, account) == Contains(ToLower(account), ToLower(pattern))

\* The account as gauth.Codes leaves it: a zero period becomes the default.
WithPeriod(acct) == IF acct.Period = 0 THEN [acct EXCEPT !.Period = DefaultPeriod] ELSE acct

\* gauth.Codes when time.Now().Unix() is seconds
Codes(acct, seconds) ==
    Let(seconds \div WithPeriod(acct).Period, LAMBDA ts :
      CodesAtTimeStep(WithPeriod(acct), U64(0, 0, ts \div LimbBase, ts % LimbBase)))

\* What loadConfig leaves in cachedRaw and cachedUrls, its error, and the
\* number of calls of getPassword it made.
ConfigLoaded(raw, urls, err, panic, calls) ==
    [raw |-> raw, urls |-> urls, err |-> err, panic |-> panic, calls |-> calls]

\* A loadConfig that keeps the accounts but not the bytes they came from.
loadConfigCachesUrlsOnly(raw, urls, f, getPass) ==
    IF raw.set THEN ConfigLoaded(raw, urls, "nil", FALSE, 0)
    ELSE Let(LoadConfigFile(f, getPass), LAMBDA r :
           IF r.panic THEN ConfigLoaded(raw, urls, "nil", TRUE, r.calls)
           ELSE IF ~r.ok THEN ConfigLoaded(raw, urls, "loading config", FALSE, r.calls)
           ELSE Let(ParseConfig(r.bytes), LAMBDA p :
                  IF ~p.ok THEN ConfigLoaded(raw, urls, "parsing config", FALSE, r.calls)
                  ELSE ConfigLoaded(raw, p.urls, "nil", FALSE, r.calls)))

\* loadConfig, with getPass what getPassword returns if called
loadConfig(raw, urls, f, getPass) ==
    IF raw.set THEN ConfigLoaded(raw, urls, "nil", FALSE, 0)
    ELSE Let(LoadConfigFile(f, getPass), LAMBDA r :
           IF r.panic THEN ConfigLoaded(raw, urls, "nil", TRUE, r.calls)
           ELSE IF ~r.ok THEN ConfigLoaded(raw, urls, "loading config", FALSE, r.calls)
           ELSE Let(ParseConfig(r.bytes), LAMBDA p :
                  IF ~p.ok THEN ConfigLoaded(raw, urls, "parsing config", FALSE, r.calls)
                  ELSE ConfigLoaded([set |-> TRUE, raw |-> r.bytes], p.urls, "nil", FALSE,
                                    r.calls)))

\* handleEncryption: the password, the error and the number of calls of
\* getPassword
handleEncryption(f, getPass) ==
    Let(ReadConfigFile(f), LAMBDA r :
      IF r.err \notin {"nil", "not exist"} THEN [pass |-> << >>, err |-> r.err, calls |-> 0]
      ELSE IF ~r.isEncrypted THEN [pass |-> << >>, err |-> "nil", calls |-> 0]
      ELSE IF ~getPass.ok THEN [pass |-> << >>, err |-> "reading passphrase", calls |-> 1]
      ELSE [pass |-> getPass.passwd, err |-> "nil", calls |-> 1])

\* A line of output about an account.
Printed(note, account, cols) == [note |-> note, account |-> account, cols |-> cols]

\* How a function of the command line ended ("exit", "fatal" or "panic"),
\* what it printed, the accounts it called Codes for and the accounts as the
\* calls left them.
Ran(end, printed, accounts, urls) ==
    [end |-> end, printed |-> printed, evaluated |-> accounts, urls |-> urls]

\* The loop of printCodes from urls[i] on; rows are flushed at the end only.
RECURSIVE printRows(_, _, _, _, _, _)
printRows(urls, i, filter, seconds, rows, accounts) ==
    IF i > Len(urls) THEN Ran("exit", rows, accounts, urls)
    ELSE IF filter # << >> /\ ~matchAccount(filter, urls[i].Account)
    THEN printRows(urls, i + 1, filter, seconds, rows, accounts)
    ELSE Let(Codes(urls[i], seconds), LAMBDA c :
           Let([urls EXCEPT ![i] = WithPeriod(urls[i])], LAMBDA after :
             IF c.panic THEN Ran("panic", << >>, Append(accounts, urls[i].Account), after)
             ELSE IF c.err # "nil"
             THEN Ran("fatal", << >>, Append(accounts, urls[i].Account), after)
             ELSE printRows(after, i + 1, filter, seconds,
                            Append(rows, Printed("row", urls[i].Account,
                                                 << c.prev, c.curr, c.next >>)),
                            Append(accounts, urls[i].Account))))

\* A printCodes that lists every account, whatever the filter.
printCodesUnfiltered(urls, filter, seconds) == printRows(urls, 1, << >>, seconds, << >>, << >>)

\* printCodes
printCodes(urls, filter, seconds) == printRows(urls, 1, filter, seconds, << >>, << >>)

\* The index of the first account the name matches, or 0
FirstMatch(name, urls) ==
    Let({i \in 1..Len(urls) : matchAccount(name, urls[i].Account)}, LAMBDA hits :
      IF hits = {} THEN 0 ELSE CHOOSE i \in hits : \A j \in hits : i <= j)

\* printBareCode
printBareCode(name, urls, seconds) ==
    Let(FirstMatch(name, urls), LAMBDA i :
      IF i = 0 THEN Ran("exit", << >>, << >>, urls)
      ELSE Let(Codes(urls[i], seconds), LAMBDA c :
             Let([urls EXCEPT ![i] = WithPeriod(urls[i])], LAMBDA after :
               IF c.panic THEN Ran("panic", << >>, << urls[i].Account >>, after)
               ELSE IF c.err # "nil" THEN Ran("fatal", << >>, << urls[i].Account >>, after)
               ELSE Ran("exit", << Printed("code", urls[i].Account, << c.curr >>) >>,
                        << urls[i].Account >>, after))))

\* printSecret
printSecret(name, urls) ==
    Let(FirstMatch(name, urls), LAMBDA i :
      IF i = 0 THEN Ran("exit", << >>, << >>, urls)
      ELSE Ran("exit", << Printed("secret", urls[i].Account, << urls[i].RawSecret >>) >>,
               << >>, urls))

\* The loop of buildNewConfig from lines[i] on
RECURSIVE buildLines(_, _, _, _, _)
buildLines(name, lines, i, builder, removed) ==
    IF i > Len(lines) THEN [config |-> builder, removed |-> removed]
    ELSE Let(TrimSpace(lines[i]), LAMBDA trim :
           IF trim = << >> THEN buildLines(name, lines, i + 1, builder, removed)
           ELSE IF matchAccount(name, TrimSpace(SplitN2(trim, << Ord[":"] >>)[1]))
           THEN buildLines(name, lines, i + 1, builder, TRUE)
           ELSE buildLines(name, lines, i + 1, builder \o trim \o << 10 >>, removed))

\* buildNewConfig
buildNewConfig(name, raw) == buildLines(name, Split(raw, << 10 >>), 1, << >>, FALSE)

\* accountExists
accountExists(name, raw) ==
    Let(Split(raw, << 10 >>), LAMBDA lines :
      \E i \in 1..Len(lines) :
         Let(SplitN2(TrimSpace(lines[i]), << Ord[":"] >>), LAMBDA kv :
           Len(kv) = 2 /\ matchAccount(name, TrimSpace(kv[1]))))

\* A confirmRemoval that takes every answer but n for a yes.
confirmRemovalUnlessNo(resp) == ToLower(TrimSpace(resp)) # << Ord["n"] >>

\* confirmRemoval, given the line read from standard input
confirmRemoval(resp) == ToLower(TrimSpace(resp)) = << Ord["y"] >>

\* updateConfig
updateConfig(currentConfig, name, key) ==
    TrimSuffix(currentConfig, << 10 >>) \o << 10 >> \o name \o << Ord[":"] >> \o key \o << 10 >>

\* validateAndSaveConfig: how it ended, what it printed, and the file
validateAndSaveConfig(f, passwd, newConfig, name, seconds) ==
    Let(ParseConfig(newConfig), LAMBDA p :
      IF ~p.ok THEN [end |-> "fatal", printed |-> << >>, evaluated |-> << >>, file |-> f]
      ELSE Let(printBareCode(name, p.urls, seconds), LAMBDA b :
             IF b.end # "exit"
             THEN [end |-> b.end, printed |-> << >>, evaluated |-> b.evaluated, file |-> f]
             ELSE Let(WriteConfigFile(f, passwd, newConfig), LAMBDA w :
                    [end |-> IF w.err = "nil" THEN "exit" ELSE "fatal", printed |-> b.printed,
                     evaluated |-> b.evaluated, file |-> w.file])))

----------------------------------------------------------------------------
(* One invocation of the command                                           *)

TwoAccounts ==
    PlainLine \o << 10 >>
        \o Str(<< "O", "t", "h", "e", "r", ":", "M", "Z", "X", "W", "6", "\n" >>)

\* The second account's secret does not decode; a third account follows it.
BadSecondAccount ==
    PlainLine \o << 10 >> \o Str(<< "O", "t", "h", "e", "r", ":", "!", "!", "\n" >>)
        \o Str(<< "B", "r", "o", "t", "h", "e", "r", ":", "M", "Z", "X", "W", "6", "\n" >>)

\* An account given as a URL, then one given as name:secret.
UrlThenName ==
    Str(<< "o", "t", "p", "a", "u", "t", "h", ":", "/", "/", "t", "o", "t", "p", "/", "a", "n", "o",
           "t", "h", "e", "r", "-", "n", "e", "w", "?", "s", "e", "c", "r", "e", "t", "=",
           "M", "Z", "X", "W", "6", "\n" >>)
        \o Str(<< "O", "t", "h", "e", "r", ":", "M", "Z", "X", "W", "6", "\n" >>)

\* The config file of the invocation: absent, plaintext, encrypted under
\* PasswordX, without a name:secret separator, with a ciphertext that is no
\* whole number of blocks, unreadable, with a URL line.
CliFiles ==
    { NoFile,
      File(TwoAccounts, ModeOwnerRW),
      File(BadSecondAccount, ModeOwnerRW),
      File(Str(<< "a", "c", "m", "e", "\n" >>), ModeOwnerRW),
      File(encryptConfig(Salt1, PasswordX, TwoAccounts), ModeOwnerRW),
      File(encryptConfig(Salt1, PasswordX, TwoAccounts), ModeReadOnly),
      File(saltedPrefix \o Salt1 \o << 9, 9, 9, 9, 9 >>, ModeOwnerRW),
      File(TwoAccounts, 0),
      File(UrlThenName, ModeOwnerRW) }

Commands == { "list", "bare", "secret", "add", "remove", "help" }

AccountArgs == { << >>, Str(<< "A", "C", "M", "E" >>), Str(<< "o", "t", "h" >>), Str(<< "n", "e", "w" >>) }

Times == { 59, 1553712630 }

\* What the user types for a new key and at the confirmation prompt.
KeyLines == { SecretABCDEFGH \o << 10 >>, Str(<< "!", "!", "\n" >>), << 10 >> }

Answers == { Str(<< "y", "\n" >>), Str(<< " ", "Y", " ", "\n" >>), Str(<< "n", "\n" >>), << >> }

CliInit ==
    /\ file \in CliFiles
    /\ file0 = file
    /\ wr = NotWritten
    /\ ld = NotLoaded
    /\ nWrites = 0
    /\ cmd \in Commands
    /\ accountName \in AccountArgs
    /\ now \in Times
    /\ pc = "main"
    /\ cachedRaw = NoCache
    /\ cachedUrls = << >>
    /\ password = << >>
    /\ rawConfig = << >>
    /\ nGetPassword = 0
    /\ evaluated = << >>
    /\ stdout = << >>
    /\ stdin = << >>
    /\ CodesIdle
    /\ CodecIdle
    /\ ParseIdle

\* main up to its call of getUrls or of the handler of add
Main ==
    /\ pc = "main"
    /\ IF cmd = "help" \/ (~file.exists /\ cmd # "add")
       THEN /\ pc' = "exit"
            /\ stdout' = << Printed("usage", << >>, << >>) >>
       ELSE /\ pc' = IF cmd = "add" THEN "addCode" ELSE "getUrls"
            /\ stdout' = stdout
    /\ UNCHANGED << file, cmd, accountName, now, cachedRaw, cachedUrls, password, rawConfig,
                    nGetPassword, evaluated, stdin, exceptCli >>

\* getUrls, called by main
GetUrls ==
    /\ pc = "getUrls"
    /\ \E getPass \in GetPassOutcomes :
         \E l \in { loadConfig(cachedRaw, cachedUrls, file, getPass) } :
            /\ cachedRaw' = l.raw
            /\ cachedUrls' = l.urls
            /\ nGetPassword' = nGetPassword + l.calls
            /\ pc' = IF l.panic THEN "panic"
                     ELSE IF l.err # "nil" THEN "fatal"
                     ELSE CASE cmd = "list" -> "printCodes"
                            [] cmd = "bare" -> "printBareCode"
                            [] cmd = "secret" -> "printSecret"
                            [] cmd = "remove" -> "removeCode"
    /\ UNCHANGED << file, cmd, accountName, now, password, rawConfig, evaluated, stdout,
                    stdin, exceptCli >>

\* A function that prints codes or secrets ran to its end.
Finish(r) ==
    /\ pc' = r.end
    /\ stdout' = stdout \o r.printed
    /\ evaluated' = evaluated \o r.evaluated
    /\ cachedUrls' = r.urls
    /\ UNCHANGED << file, cmd, accountName, now, cachedRaw, password, rawConfig, nGetPassword,
                    stdin, exceptCli >>

PrintCodes ==
    /\ pc = "printCodes"
    /\ \E r \in { printCodes(cachedUrls, accountName, now) } : Finish(r)

PrintBareCode ==
    /\ pc = "printBareCode"
    /\ \E r \in { printBareCode(accountName, cachedUrls, now) } : Finish(r)

PrintSecret ==
    /\ pc = "printSecret"
    /\ \E r \in { printSecret(accountName, cachedUrls) } : Finish(r)

\* The call of handleEncryption that addCode and removeCode begin with.
CallHandleEncryption(next) ==
    /\ \E getPass \in GetPassOutcomes :
         \E h \in { handleEncryption(file, getPass) } :
            /\ nGetPassword' = nGetPassword + h.calls
            /\ password' = h.pass
            /\ pc' = IF h.err # "nil" THEN "fatal" ELSE next
    /\ UNCHANGED << file, cmd, accountName, now, cachedRaw, cachedUrls, rawConfig, evaluated,
                    stdout, stdin, exceptCli >>

\* removeCode up to its call of getRawConfig
RemoveCode ==
    /\ pc = "removeCode"
    /\ CallHandleEncryption("removeCode.getRawConfig")

\* removeCode from its call of getRawConfig on
RemoveCodeWrite ==
    /\ pc = "removeCode.getRawConfig"
    /\ \E getPass \in GetPassOutcomes, resp \in Answers :
         \E l \in { loadConfig(cachedRaw, cachedUrls, file, getPass) } :
            /\ nGetPassword' = nGetPassword + l.calls
            /\ IF l.panic \/ l.err # "nil"
               THEN /\ pc' = IF l.panic THEN "panic" ELSE "fatal"
                    /\ UNCHANGED << file, cachedRaw, cachedUrls, stdout, stdin >>
               ELSE \E b \in { buildNewConfig(accountName, l.raw.raw) } :
                      IF ~b.removed
                      THEN /\ pc' = "exit"
                           /\ stdout' = Append(stdout, Printed("not found", accountName, << >>))
                           /\ cachedRaw' = l.raw
                           /\ cachedUrls' = l.urls
                           /\ file' = file
                           /\ stdin' = stdin
                      ELSE IF ~confirmRemoval(resp)
                      THEN /\ pc' = "exit"
                           /\ cachedRaw' = l.raw
                           /\ cachedUrls' = l.urls
                           /\ stdin' = Append(stdin, resp)
                           /\ UNCHANGED << file, stdout >>
                      ELSE \E w \in { WriteConfigFile(file, password, b.config) } :
                             /\ file' = w.file
                             /\ stdin' = Append(stdin, resp)
                             /\ IF w.err # "nil"
                                THEN /\ pc' = "fatal"
                                     /\ cachedRaw' = l.raw
                                     /\ cachedUrls' = l.urls
                                     /\ stdout' = stdout
                                ELSE /\ pc' = "exit"
                                     /\ cachedRaw' = NoCache
                                     /\ cachedUrls' = << >>
                                     /\ stdout' = Append(stdout,
                                                         Printed("removed", accountName, << >>))
    /\ UNCHANGED << cmd, accountName, now, password, rawConfig, evaluated, exceptCli >>

\* addCode up to its call of os.Stat
AddCode ==
    /\ pc = "addCode"
    /\ CallHandleEncryption("addCode.getRawConfig")

\* addCode from its call of os.Stat to its call of readNewKey
AddCodeGetRawConfig ==
    /\ pc = "addCode.getRawConfig"
    /\ IF ~file.exists
       THEN /\ rawConfig' = << >>
            /\ pc' = "addCode.readNewKey"
            /\ UNCHANGED << cachedRaw, cachedUrls, nGetPassword, stdout >>
       ELSE \E getPass \in GetPassOutcomes :
              \E l \in { loadConfig(cachedRaw, cachedUrls, file, getPass) } :
                 /\ nGetPassword' = nGetPassword + l.calls
                 /\ cachedRaw' = l.raw
                 /\ cachedUrls' = l.urls
                 /\ IF l.panic \/ l.err # "nil"
                    THEN /\ pc' = IF l.panic THEN "panic" ELSE "fatal"
                         /\ UNCHANGED << rawConfig, stdout >>
                    ELSE IF accountExists(accountName, l.raw.raw)
                    THEN /\ pc' = "exit"
                         /\ stdout' = Append(stdout, Printed("exists", accountName, << >>))
                         /\ rawConfig' = l.raw.raw
                    ELSE /\ pc' = "addCode.readNewKey"
                         /\ rawConfig' = l.raw.raw
                         /\ stdout' = stdout
    /\ UNCHANGED << file, cmd, accountName, now, password, evaluated, stdin, exceptCli >>

\* addCode from its call of readNewKey on
AddCodeSave ==
    /\ pc = "addCode.readNewKey"
    /\ \E key \in KeyLines :
         \E r \in { validateAndSaveConfig(file, password,
                                           updateConfig(rawConfig, accountName, TrimSpace(key)),
                                           accountName, now) } :
            /\ stdin' = Append(stdin, key)
            /\ pc' = r.end
            /\ file' = r.file
            /\ stdout' = stdout \o r.printed
            /\ evaluated' = evaluated \o r.evaluated
            /\ cachedRaw' = IF r.end = "exit" THEN NoCache ELSE cachedRaw
            /\ cachedUrls' = IF r.end = "exit" THEN << >> ELSE cachedUrls
    /\ UNCHANGED << cmd, accountName, now, password, rawConfig, nGetPassword, exceptCli >>

CliNext ==
    \/ Main
    \/ GetUrls
    \/ PrintCodes
    \/ PrintBareCode
    \/ PrintSecret
    \/ RemoveCode
    \/ RemoveCodeWrite
    \/ AddCode
    \/ AddCodeGetRawConfig
    \/ AddCodeSave

SpecCli == CliInit /\ [][CliNext]_vars

----------------------------------------------------------------------------
(* Reference definitions for the properties                               *)

\* The counters, as the eight big-endian bytes that are hashed, of the codes
\* before, at and after each time step of TimeSteps, written out by hand.
ExpectedWindow(ts) ==
    CASE ts = Zero64 ->
            << << 255, 255, 255, 255, 255, 255, 255, 255 >>,
               << 0, 0, 0, 0, 0, 0, 0, 0 >>, << 0, 0, 0, 0, 0, 0, 0, 1 >> >>
      [] ts = U64(0, 0, 0, 1) ->
            << << 0, 0, 0, 0, 0, 0, 0, 0 >>,
               << 0, 0, 0, 0, 0, 0, 0, 1 >>, << 0, 0, 0, 0, 0, 0, 0, 2 >> >>
      [] ts = Max64 ->
            << << 255, 255, 255, 255, 255, 255, 255, 254 >>,
               << 255, 255, 255, 255, 255, 255, 255, 255 >>, << 0, 0, 0, 0, 0, 0, 0, 0 >> >>
      [] ts = U64(65535, 65535, 65535, 65534) ->
            << << 255, 255, 255, 255, 255, 255, 255, 253 >>,
               << 255, 255, 255, 255, 255, 255, 255, 254 >>,
               << 255, 255, 255, 255, 255, 255, 255, 255 >> >>
      [] ts = U64(0, 0, 1, 0) ->
            << << 0, 0, 0, 0, 0, 0, 255, 255 >>,
               << 0, 0, 0, 0, 0, 1, 0, 0 >>, << 0, 0, 0, 0, 0, 1, 0, 1 >> >>
      [] ts = U64(0, 0, 0, 65535) ->
            << << 0, 0, 0, 0, 0, 0, 255, 254 >>,
               << 0, 0, 0, 0, 0, 0, 255, 255 >>, << 0, 0, 0, 0, 0, 1, 0, 0 >> >>
      [] ts = U64(0, 1, 0, 0) ->
            << << 0, 0, 0, 0, 255, 255, 255, 255 >>,
               << 0, 0, 0, 1, 0, 0, 0, 0 >>, << 0, 0, 0, 1, 0, 0, 0, 1 >> >>
      [] ts = U64(0, 0, 790, 16981) ->
            << << 0, 0, 0, 0, 3, 22, 66, 84 >>,
               << 0, 0, 0, 0, 3, 22, 66, 85 >>, << 0, 0, 0, 0, 3, 22, 66, 86 >> >>

RECURSIVE Pow10(_)
Pow10(d) == IF d = 0 THEN 1 ELSE 10 * Pow10(d - 1)

\* RFC 4226: the truncated value modulo 10^d as d decimal digits.
ExpectedCode(hash, key, counterBytes, d) ==
    LET v == Truncate(HmacSum(hash, key, counterBytes)) % Pow10(d)
        s == FormatUint(v)
    IN  Repeat(48, d - Len(s)) \o s

SupportedAlgorithms == { EmptyString, AlgSHA1, AlgSHA256, AlgSHA512 }

ExpectedHash(name) ==
    IF name = AlgSHA256 THEN "sha256" ELSE IF name = AlgSHA512 THEN "sha512" ELSE "sha1"

\* A secret that is base32 once case and white space are ignored: characters
\* of the alphabet A-Z, 2-7, then nothing but padding, of a length (1, 3 or
\* 6 characters beyond a multiple of 8 are none) that has a decoding, the
\* padding not reaching beyond the last group of eight.
Base32Alphabet == (65..90) \cup (50..55)

IsBase32Secret(sec) ==
    LET t    == SelectSeq(sec, LAMBDA c : ~IsSpace(c))
        data == {i \in 1..Len(t) : ToUpperByte(t[i]) \in Base32Alphabet}
        n    == Cardinality(data)
    IN  /\ data = 1..n
        /\ \A i \in (n + 1)..Len(t) : t[i] = PadChar
        /\ n % 8 \in {0, 2, 4, 5, 7}
        /\ Len(t) - n <= (8 - (n % 8)) % 8

NoCodes(r) == r.prev = EmptyString /\ r.curr = EmptyString /\ r.next = EmptyString

----------------------------------------------------------------------------
(* Properties                                                              *)

\* C1: for a TOTP account with a decodable secret and a supported algorithm,
\* CodesAtTimeStep(u, T) returns without error the codes of the counters
\* T-1, T and T+1 taken modulo 2^64, all three with the account's key, hash
\* and digit count; at T = 0 the previous code is that of counter 2^64-1.
C1_ThreeCodeWindow ==
    ( /\ called = "CodesAtTimeStep"
      /\ u.Type = TypeTotp
      /\ u.Algorithm \in SupportedAlgorithms
      /\ IsBase32Secret(u.RawSecret) ) =>
        LET key  == ParseKey(u.RawSecret).bytes
            h    == ExpectedHash(u.Algorithm)
            d    == IF u.Digits = 0 THEN 6 ELSE u.Digits
            w    == ExpectedWindow(timeStep)
        IN  /\ ret.err = "nil"
            /\ ~ret.panic
            /\ ret.prev = ExpectedCode(h, key, w[1], d)
            /\ ret.curr = ExpectedCode(h, key, w[2], d)
            /\ ret.next = ExpectedCode(h, key, w[3], d)

C1_Witness ==
    /\ called = "CodesAtTimeStep"
    /\ timeStep = Zero64
    /\ ret.err = "nil"
    /\ ~ret.panic
    /\ ret.prev = ExpectedCode("sha1", ParseKey(SecretABCDEFGH).bytes,
                                << 255, 255, 255, 255, 255, 255, 255, 255 >>, 6)
    /\ ret.prev # ret.curr

\* C2: a secret that is not base32 (after case folding, white space removal
\* and padding) makes every Codes function return an error and three empty
\* codes.
C2_UndecodableSecretFails ==
    (called # "none" /\ ~IsBase32Secret(u.RawSecret)) =>
        ret.err # "nil" /\ ~ret.panic /\ NoCodes(ret)

C2_Witness ==
    /\ called = "CodesAtTimeStep"
    /\ u.Type = TypeTotp
    /\ u.RawSecret = SecretBlargh
    /\ ret.err = "invalid secret"
    /\ NoCodes(ret)

\* C10: for a TOTP account a hash is selected only for the algorithm names
\* SHA1, SHA256, SHA512 and the empty name; any other name gives the
\* unsupported-algorithm error and no codes, whether or not the secret
\* decodes.
C10_AlgorithmCheckedFirst ==
    ( /\ called \in {"CodesAtTimeStep", "CodesOfURL"}
      /\ u.Type = TypeTotp ) =>
        /\ u.Algorithm \notin SupportedAlgorithms =>
                ret = CodesError("unsupported algorithm")
        /\ (ret.err \in {"nil", "invalid secret"} \/ ret.panic) =>
                u.Algorithm \in SupportedAlgorithms

C10_Witness ==
    /\ called = "CodesAtTimeStep"
    /\ u.Type = TypeTotp
    /\ u.Algorithm = Str(<< "M", "D", "5" >>)
    /\ u.RawSecret = SecretBlargh
    /\ ret = CodesError("unsupported algorithm")

----------------------------------------------------------------------------
(* Claims about the codec                                                  *)

\* C3: for every plaintext (the empty one and the block-aligned ones
\* included), every password and every 8-byte salt, decryptConfig of
\* encryptConfig's output under the same password succeeds and returns
\* exactly the plaintext.
C3_DecryptInvertsEncrypt ==
    (cin.kind = "config" /\ dec.by = "decryptConfig" /\ dec.passwd = cin.passwd)
        => (~dec.panic /\ dec.ok /\ dec.err = "nil" /\ dec.bytes = cin.plain)

C3_Witness ==
    /\ cin.kind = "config"
    /\ cin.plain = ConfigLine16
    /\ Len(enc) = (saltOffset + saltSize) + (2 * blockSize)
    /\ dec.by = "decryptConfig"
    /\ dec.passwd = cin.passwd
    /\ dec.bytes = ConfigLine16

\* The decrypted buffer: what the decrypting call left in place of the
\* ciphertext, after the marker and the salt.
DecryptedBuffer == SubSeq(enc, (saltOffset + saltSize) + 1, Len(enc))

WellPadded(buf) ==
    /\ Len(buf) > 0
    /\ LET p == buf[Len(buf)]
       IN  /\ 1 <= p
           /\ p <= 16
           /\ p <= Len(buf)
           /\ \A i \in (Len(buf) - p + 1)..Len(buf) : buf[i] = p

\* C4: padding removal after decryption accepts a decrypted buffer only if
\* its last byte p satisfies 1 <= p <= 16 and p <= length and the last p
\* bytes all equal p, and then returns the buffer without those p bytes; any
\* other buffer yields an error and no plaintext.
C4_StrictPaddingRemoval ==
    (dec.by # "none" /\ ~dec.panic /\ Len(enc) >= saltOffset + saltSize)
        => /\ dec.ok =>
                /\ WellPadded(DecryptedBuffer)
                /\ dec.bytes = SubSeq(DecryptedBuffer, 1,
                                       Len(DecryptedBuffer) - DecryptedBuffer[Len(DecryptedBuffer)])
           /\ ~WellPadded(DecryptedBuffer) => (~dec.ok /\ dec.err # "nil" /\ dec.bytes = << >>)

----------------------------------------------------------------------------
(* Claims about the config file                                            *)

\* The bytes begin with the 8-byte marker of an encrypted file.
BeginsWithMarker(bytes) ==
    /\ Len(bytes) >= 8
    /\ SubSeq(bytes, 1, 8) = << 83, 97, 108, 116, 101, 100, 95, 95 >>

WasEncrypted(f) == f.exists /\ BeginsWithMarker(f.data)

\* A LoadConfigFile call made after the last WriteConfigFile call, with a
\* password provider returning the password of that call.
LoadedBackWithSamePassword ==
    /\ wr.err = "nil"
    /\ ld.after = "write"
    /\ ld.getPass = GotPass(wr.passwd)

\* C5 (as stated): after WriteConfigFile(path, pw, P) returns without error,
\* LoadConfigFile with getPass returning pw returns exactly P, whether the
\* file was absent, plaintext or encrypted before; when it was absent or
\* plaintext the bytes on disk are exactly P.
C5_LoadReturnsWhatWasWritten ==
    /\ LoadedBackWithSamePassword => (ld.ok /\ ld.bytes = wr.config)
    /\ (wr.err = "nil" /\ ~WasEncrypted(wr.before)) => file.data = wr.config

\* C5 (amended): the same, for a P that does not begin with the marker
\* "Salted__" when the file was absent or plaintext before the call; any P
\* when the file was encrypted.
C5_LoadReturnsWhatWasWrittenUnlessMarked ==
    /\ (LoadedBackWithSamePassword /\ (WasEncrypted(wr.before) \/ ~BeginsWithMarker(wr.config)))
           => (~ld.panic /\ ld.ok /\ ld.bytes = wr.config)
    /\ (wr.err = "nil" /\ ~WasEncrypted(wr.before)) => file.data = wr.config

C5_Witness ==
    /\ LoadedBackWithSamePassword
    /\ WasEncrypted(wr.before)
    /\ wr.passwd # PasswordX
    /\ wr.config = ConfigLine16 \o << 10 >>
    /\ file.data # wr.config
    /\ ld.bytes = wr.config

\* C6: starting from an encrypted config file, after any sequence of
\* successful WriteConfigFile calls the file still begins with the marker
\* "Salted__", bytes [8:16] are the original salt, and the remainder is a
\* non-empty multiple of 16 bytes.
C6_SaltAndFormatKept ==
    (WasEncrypted(file0) /\ nWrites >= 1 /\ wr.err = "nil")
        => /\ BeginsWithMarker(file.data)
           /\ Len(file.data) > 16
           /\ (Len(file.data) - 16) % 16 = 0
           /\ Len(file0.data) >= 16 => SubSeq(file.data, 9, 16) = SubSeq(file0.data, 9, 16)

C6_Witness ==
    /\ WasEncrypted(file0)
    /\ Len(file0.data) >= 16
    /\ nWrites = 2
    /\ wr.err = "nil"
    /\ wr.passwd # PasswordX
    /\ Len(file.data) # Len(file0.data)
    /\ SubSeq(file.data, 9, 16) = Salt1

\* C7: LoadConfigFile treats the file as encrypted if and only if its bytes
\* begin with the marker "Salted__": for any other content it returns the
\* file bytes unchanged and never calls getPass; for content with the marker
\* it calls getPass exactly once, and a getPass failure is returned as an
\* error without any plaintext.
C7_EncryptedIffMarker ==
    (ld.err # "not called" /\ file.exists /\ OwnerCanRead(file))
        => /\ ~BeginsWithMarker(file.data)
                => (ld.ok /\ ld.err = "nil" /\ ld.bytes = file.data /\ ld.calls = 0)
           /\ BeginsWithMarker(file.data) => ld.calls = 1
           /\ (BeginsWithMarker(file.data) /\ ~ld.getPass.ok)
                => (~ld.ok /\ ld.err = "reading passphrase" /\ ld.bytes = << >>)

C7_Witness ==
    /\ ld.err = "reading passphrase"
    /\ ld.calls = 1
    /\ BeginsWithMarker(file.data)
    /\ ld.getPass = NoPass

----------------------------------------------------------------------------
(* Claims about parsing                                                    *)

\* Labels and parameter lists that are well-formed.
WellFormedLabels ==
    { << 97, 99, 109, 101 >>,
      << 73, 115, 115, 58, 97, 99, 109, 101 >>,
      << 73, 115, 115, 37, 51, 65, 37, 50, 48, 97, 99, 109, 101 >> }

\* Parameter lists with a parameter of an unknown name, and with a counter,
\* digits or period that is not an unsigned integer.
UnknownNameParams ==
    { << 98, 111, 103, 117, 115, 61, 120 >>,
      << 98, 111, 103, 117, 115, 61, 53 >>,
      << 98, 111, 103, 117, 115 >> }

BadIntegerParams ==
    { << 100, 105, 103, 105, 116, 115, 61, 120 >>,
      << 99, 111, 117, 110, 116, 101, 114, 61, 45, 49 >>,
      << 112, 101, 114, 105, 111, 100, 61 >> }

\* A parameter of an unknown name whose value is not a percent-encoding
UnknownNameBadEscapeParams == { << 98, 111, 103, 117, 115, 61, 37, 122, 122 >> }

WellFormedParams ==
    UrlParams \ (UnknownNameParams \cup BadIntegerParams \cup UnknownNameBadEscapeParams)

\* A call of a parser on a well-formed input of a non-empty type; ParseConfig
\* takes a URL only with its otpauth scheme.
ParsedWellFormed ==
    /\ parsed.by # "none"
    /\ parts.type # << >>
    /\ parts.label \in WellFormedLabels
    /\ parts.params \in WellFormedParams
    /\ \/ parts.form \in {"url", "config"}
       \/ parts.form = "bare url" /\ parsed.by = "ParseURL"

\* C9: an account's type is never rejected at parse time: ParseConfig and
\* ParseURL succeed for any non-empty type; CodesAtTimeStep returns the
\* unsupported-type error with three empty codes whenever the type is not
\* "totp", whatever the account's algorithm and secret.
C9_TypeRejectedOnlyByCodes ==
    /\ ParsedWellFormed
          => /\ parsed.ok
             /\ \E i \in 1..Len(parsed.urls) : parsed.urls[i].Type = ToLower(parts.type)
    /\ (called = "CodesAtTimeStep" /\ u.Type # << 116, 111, 116, 112 >>)
          => (ret.err = "unsupported type" /\ ~ret.panic /\ NoCodes(ret))

C9_Witness ==
    /\ ParsedWellFormed
    /\ parsed.by = "ParseConfig"
    /\ parts.type = << 72, 79, 84, 80 >>
    /\ called = "CodesAtTimeStep"
    /\ u.Type = << 104, 111, 116, 112 >>
    /\ u.Algorithm = << 77, 68, 53 >>
    /\ ret.err = "unsupported type"

----------------------------------------------------------------------------
(* Claims about the command line                                           *)

\* C8: within one invocation of the command (list, bare, secret, add or
\* remove) getPassword is invoked at most once, for plaintext and for
\* encrypted config files.
C8_PasswordAskedAtMostOnce == nGetPassword <= 1

----------------------------------------------------------------------------
(* Claims about empty keys and parsed configurations                       *)

\* C11: a secret that decodes to zero key bytes (the empty secret of a config
\* line "name:" or of an otpauth URL without a secret parameter) makes
\* CodesAtTimeStep return an error and no codes: no code is computed with an
\* empty HMAC key.
C11_EmptyKeyRejected ==
    ( /\ called = "CodesAtTimeStep"
      /\ ParseKey(u.RawSecret).ok
      /\ ParseKey(u.RawSecret).bytes = << >> ) =>
        ret.err # "nil" /\ NoCodes(ret)


\* C12: every account of a successful ParseConfig has a non-empty account
\* name, for name:secret lines and for otpauth URLs alike.
C12_AccountNamesNonEmpty ==
    (parsed.by = "ParseConfig" /\ parsed.ok) =>
        \A i \in 1..Len(parsed.urls) : parsed.urls[i].Account # << >>


\* The lines that are empty after trimming, and the account each of the
\* other well-formed lines stands for (written out by hand).
BlankLines == { << >>, << 32, 9 >> }

MalformedLines == { LineNoColon, LineBadUrl }

ExpectedAccount(line) ==
    CASE line = PlainLine ->
            [Type |-> << 116, 111, 116, 112 >>, Issuer |-> << >>,
             Account |-> << 97, 99, 109, 101 >>,
             RawSecret |-> << 65, 66, 67, 68, 69, 70, 71, 72 >>,
             Algorithm |-> << >>, Digits |-> 0, Period |-> 0, Counter |-> 0]
      [] line = LineOther ->
            [Type |-> << 116, 111, 116, 112 >>, Issuer |-> << >>,
             Account |-> << 79, 116, 104, 101, 114 >>,
             RawSecret |-> << 77, 90, 88, 87, 54 >>,
             Algorithm |-> << >>, Digits |-> 0, Period |-> 0, Counter |-> 0]
      [] line = LineColons ->
            [Type |-> << 116, 111, 116, 112 >>, Issuer |-> << >>,
             Account |-> << 97 >>,
             RawSecret |-> << 98, 58, 32, 99 >>,
             Algorithm |-> << >>, Digits |-> 0, Period |-> 0, Counter |-> 0]
      [] line = LineNoName ->
            [Type |-> << 116, 111, 116, 112 >>, Issuer |-> << >>,
             Account |-> << >>,
             RawSecret |-> << 65, 66, 67, 68, 69, 70, 71, 72 >>,
             Algorithm |-> << >>, Digits |-> 0, Period |-> 0, Counter |-> 0]
      [] line = LineNoSecret ->
            [Type |-> << 116, 111, 116, 112 >>, Issuer |-> << >>,
             Account |-> << 97, 99, 109, 101 >>,
             RawSecret |-> << >>,
             Algorithm |-> << >>, Digits |-> 0, Period |-> 0, Counter |-> 0]
      [] line = LineUrl ->
            [Type |-> << 104, 111, 116, 112 >>, Issuer |-> << 73, 115, 115 >>,
             Account |-> << 97, 99, 109, 101 >>,
             RawSecret |-> << 65, 66, 67, 68, 69, 70, 71, 72 >>,
             Algorithm |-> << 83, 72, 65, 49 >>, Digits |-> 6, Period |-> 30, Counter |-> 0]

NonBlankLines == SelectSeq(parts.lines, LAMBDA l : l \notin BlankLines)

ParsedLines == parsed.by = "ParseConfig" /\ parts.form = "lines"

\* C13: a successful ParseConfig returns exactly one account per non-blank
\* line, in the order of the lines; blank lines contribute nothing and the
\* same account name may occur more than once.
C13_OneAccountPerLine ==
    (ParsedLines /\ parsed.ok) =>
        /\ Len(parsed.urls) = Len(NonBlankLines)
        /\ \A i \in 1..Len(parsed.urls) : parsed.urls[i] = ExpectedAccount(NonBlankLines[i])

C13_Witness ==
    /\ ParsedLines
    /\ parts.lines = << PlainLine, LineSpaces, PlainLine >>
    /\ parsed.ok
    /\ Len(parsed.urls) = 2
    /\ parsed.urls[1] = parsed.urls[2]


\* The numbers (from 1, blank lines counted) of the malformed lines
MalformedAt == {i \in 1..Len(parts.lines) : parts.lines[i] \in MalformedLines}

\* C14: when the first malformed line of the input is its N-th line, blank
\* lines counted from 1, ParseConfig fails with an error that names line N
\* and returns no accounts; without a malformed line it succeeds.
C14_ErrorNamesFirstBadLine ==
    ParsedLines =>
        /\ parsed.ok <=> (MalformedAt = {})
        /\ \A n \in MalformedAt :
              (\A k \in MalformedAt : n <= k) =>
                  /\ parsed.line = n
                  /\ parsed.err \in {"invalid format", "invalid otpauth URL"}
                  /\ parsed.urls = << >>

C14_Witness ==
    /\ ParsedLines
    /\ parts.lines = << LineBlank, PlainLine, LineNoColon >>
    /\ ~parsed.ok
    /\ parsed.line = 3
    /\ parsed.err = "invalid format"


\* The bytes of s from its first to its last non-space byte
RECURSIVE Stripped(_)
Stripped(s) ==
    IF s = << >> THEN s
    ELSE IF s[1] \in {9, 10, 13, 32} THEN Stripped(Tail(s))
    ELSE IF s[Len(s)] \in {9, 10, 13, 32} THEN Stripped(SubSeq(s, 1, Len(s) - 1))
    ELSE s

IsUrlLine(l) == Len(l) >= 10 /\ SubSeq(l, 1, 10) = << 111, 116, 112, 97, 117, 116, 104, 58, 47, 47 >>

Colons(l) == {i \in 1..Len(l) : l[i] = 58}

\* C15: ParseConfig splits a line that is not an otpauth URL at its first
\* colon only: the trimmed text before it is the account name, the trimmed
\* text after it (further colons included) the raw secret, the type is
\* "totp" and issuer, algorithm, digits, period and counter stay unset; a
\* line without a colon is malformed.
C15_NameSecretLine ==
    ParsedLines =>
        /\ parsed.ok =>
              \A i \in 1..Len(parsed.urls) :
                  LET l == Stripped(NonBlankLines[i])
                      a == parsed.urls[i]
                  IN  ~IsUrlLine(l) =>
                        \E c \in Colons(l) :
                          /\ \A k \in Colons(l) : c <= k
                          /\ a.Account = Stripped(SubSeq(l, 1, c - 1))
                          /\ a.RawSecret = Stripped(SubSeq(l, c + 1, Len(l)))
                          /\ a.Type = << 116, 111, 116, 112 >>
                          /\ a.Issuer = << >> /\ a.Algorithm = << >>
                          /\ a.Digits = 0 /\ a.Period = 0 /\ a.Counter = 0
        /\ (\E i \in 1..Len(parts.lines) :
                  /\ parts.lines[i] \notin BlankLines
                  /\ ~IsUrlLine(parts.lines[i])
                  /\ Colons(parts.lines[i]) = {})
              => (~parsed.ok /\ parsed.urls = << >>)

C15_Witness ==
    /\ ParsedLines
    /\ parts.lines = << LineColons, LineOther >>
    /\ parsed.ok
    /\ parsed.urls[1].Account = << 97 >>
    /\ parsed.urls[1].RawSecret = << 98, 58, 32, 99 >>
    /\ parsed.urls[2].Account = << 79, 116, 104, 101, 114 >>
    /\ parsed.urls[2].RawSecret = << 77, 90, 88, 87, 54 >>


----------------------------------------------------------------------------
(* Claims about the parameters and the label of a URL                      *)

\* A call of ParseURL on a URL whose type and label are well-formed
ParsedUrlOfGoodLabel ==
    /\ parsed.by = "ParseURL"
    /\ parts.form \in {"url", "bare url"}
    /\ parts.type # << >>
    /\ parts.label \in WellFormedLabels

\* C17 as stated: ParseURL reports every parameter of an unknown name with
\* the invalid-parameter error, whatever its value.
C17_UnknownParameterAlways ==
    (ParsedUrlOfGoodLabel /\ parts.params \in UnknownNameParams \cup UnknownNameBadEscapeParams)
        => (~parsed.ok /\ parsed.err = "invalid parameter")

\* C17: ParseURL reports a parameter of an unknown name whose value is a
\* valid percent-encoding with the invalid-parameter error, whether or not
\* the value is an unsigned integer; a value that is not a valid
\* percent-encoding is reported first, as an invalid value; the
\* invalid-integer error is reported only for a counter, digits or period
\* whose value is not an unsigned integer.
C17_UnknownParameterFirst ==
    /\ (ParsedUrlOfGoodLabel /\ parts.params \in UnknownNameParams)
          => (~parsed.ok /\ parsed.err = "invalid parameter")
    /\ (ParsedUrlOfGoodLabel /\ parts.params \in UnknownNameBadEscapeParams)
          => (~parsed.ok /\ parsed.err = "invalid value")
    /\ (ParsedUrlOfGoodLabel /\ parts.params \in BadIntegerParams)
          => (~parsed.ok /\ parsed.err = "invalid integer value")
    /\ (parsed.by = "ParseURL" /\ parsed.err = "invalid integer value")
          => parts.params \in BadIntegerParams

C17_Witness ==
    /\ ParsedUrlOfGoodLabel
    /\ parts.params = << 98, 111, 103, 117, 115, 61, 120 >>
    /\ ~parsed.ok
    /\ parsed.err = "invalid parameter"


\* The issuer and the account of the well-formed labels, and the labels with
\* nothing before the colon or nothing after it (written out by hand).
LabelParts ==
    [l \in { << 97, 99, 109, 101 >>,
             << 73, 115, 115, 58, 97, 99, 109, 101 >>,
             << 73, 115, 115, 37, 51, 65, 37, 50, 48, 97, 99, 109, 101 >>,
             << 37, 50, 48, 73, 115, 115, 37, 50, 48, 58, 97, 58, 98 >> } |->
        CASE l = << 97, 99, 109, 101 >> ->
                [issuer |-> << >>, account |-> << 97, 99, 109, 101 >>]
          [] l = << 37, 50, 48, 73, 115, 115, 37, 50, 48, 58, 97, 58, 98 >> ->
                [issuer |-> << 73, 115, 115 >>, account |-> << 97, 58, 98 >>]
          [] OTHER ->
                [issuer |-> << 73, 115, 115 >>, account |-> << 97, 99, 109, 101 >>]]

EmptyPartLabels == { << 58, 97, 99, 109, 101 >>, << 73, 115, 115, 58 >> }

\* The value of the issuer parameter, of the parameter lists that have one
IssuerParam ==
    [p \in { ParamSecret \o << 38, 105, 115, 115, 117, 101, 114, 61, 79, 37, 50, 54, 89 >>,
             ParamSecret \o << 38, 105, 115, 115, 117, 101, 114, 61 >> } |->
        IF p[Len(p)] = 89 THEN << 79, 38, 89 >> ELSE << >>]

ParsedUrlText ==
    /\ parsed.by = "ParseURL"
    /\ parts.form \in {"url", "bare url"}
    /\ parts.type # << >>

\* C18: ParseURL splits the percent-decoded label at its first colon into
\* the issuer before it and the account after it, both trimmed; a label
\* with a colon and no issuer, or with no account, is an error; the value of
\* an issuer parameter replaces the issuer of the label.
C18_LabelAndIssuer ==
    /\ (ParsedUrlText /\ parts.label \in DOMAIN LabelParts /\ parts.params \in WellFormedParams)
          => /\ parsed.ok
             /\ parsed.urls[1].Account = LabelParts[parts.label].account
             /\ parsed.urls[1].Issuer =
                    IF parts.params \in DOMAIN IssuerParam THEN IssuerParam[parts.params]
                    ELSE LabelParts[parts.label].issuer
    /\ (ParsedUrlText /\ parts.label \in EmptyPartLabels)
          => (~parsed.ok /\ parsed.err = "invalid label" /\ parsed.urls = << >>)

C18_Witness ==
    /\ ParsedUrlText
    /\ parts.label = << 37, 50, 48, 73, 115, 115, 37, 50, 48, 58, 97, 58, 98 >>
    /\ parts.params \in DOMAIN IssuerParam
    /\ parsed.ok
    /\ parsed.urls[1].Issuer = << 79, 38, 89 >>
    /\ parsed.urls[1].Account = << 97, 58, 98 >>


----------------------------------------------------------------------------
(* Claims about the round trip of a URL                                    *)

\* A raw secret without white space and trailing padding, in upper case
RECURSIVE CanonicalSecret(_)
CanonicalSecret(s) ==
    IF s = << >> THEN s
    ELSE IF s[Len(s)] = 61 THEN CanonicalSecret(SubSeq(s, 1, Len(s) - 1))
    ELSE LET c == s[1]
         IN  (IF c \in {9, 10, 13, 32} THEN << >>
              ELSE IF c >= 97 /\ c <= 122 THEN << c - 32 >> ELSE << c >>)
             \o CanonicalSecret(Tail(s))

\* b has the fields of a: the type and the algorithm up to case, the secret
\* up to case, white space and padding, an unset algorithm, digits or period
\* as its default.
SameAccount(a, b) ==
    /\ ToLower(b.Type) = ToLower(a.Type)
    /\ b.Issuer = a.Issuer
    /\ b.Account = a.Account
    /\ CanonicalSecret(b.RawSecret) = CanonicalSecret(a.RawSecret)
    /\ ToUpper(b.Algorithm) = (IF a.Algorithm = << >> THEN << 83, 72, 65, 49 >> ELSE ToUpper(a.Algorithm))
    /\ b.Digits = (IF a.Digits = 0 THEN 6 ELSE a.Digits)
    /\ b.Period = (IF a.Period = 0 THEN 30 ELSE a.Period)
    /\ b.Counter = a.Counter

\* C16: for every account of a non-empty type and account name, ParseURL of
\* the account's String succeeds and yields the same type, issuer, account,
\* raw secret (up to case and padding), algorithm, digits, period and
\* counter, unset fields coming back as their defaults; also when the issuer
\* or the account contains ':', '&', '=', '?', '/' or spaces.
C16_StringRoundTrip ==
    (parts.form = "string" /\ parsed.by = "ParseURL") =>
        (parsed.ok /\ SameAccount(u, parsed.urls[1]))


----------------------------------------------------------------------------
(* Claims about the listing                                                *)

\* printCodes has run: the list command ended after the config was loaded.
ListDone == cmd = "list" /\ pc \in {"exit", "fatal", "panic"} /\ cachedUrls # << >>

\* The account at position i of the file matches the filter (there is no
\* filter, or its name contains the filter, case ignored).
MatchesFilter(i) ==
    LET n == cachedUrls[i].Account
        f == accountName
        lower(c) == IF c >= 65 /\ c <= 90 THEN c + 32 ELSE c
    IN  \/ f = << >>
        \/ \E k \in 0..(Len(n) - Len(f)) : \A j \in 1..Len(f) : lower(n[k + j]) = lower(f[j])

\* The position of the first matching account that has no codes, or 0
FirstFailing ==
    LET bad == {i \in 1..Len(cachedUrls) :
                    MatchesFilter(i) /\ ~IsBase32Secret(cachedUrls[i].RawSecret)}
    IN  IF bad = {} THEN 0 ELSE CHOOSE i \in bad : \A j \in bad : i <= j

\* C19: the listing evaluates the accounts that match the filter in the
\* order of the file; the first of them whose codes cannot be generated ends
\* the run fatally and no account after it is evaluated; an account that
\* does not match the filter is never evaluated.
C19_ListStopsAtFirstFailure ==
    ListDone =>
        LET positions == SelectSeq([i \in 1..Len(cachedUrls) |-> i],
                                   LAMBDA i : MatchesFilter(i)
                                                /\ (FirstFailing = 0 \/ i <= FirstFailing))
        IN  /\ evaluated = [k \in 1..Len(positions) |-> cachedUrls[positions[k]].Account]
            /\ pc = (IF FirstFailing = 0 THEN "exit" ELSE "fatal")

C19_Witness ==
    /\ ListDone
    /\ Len(cachedUrls) = 3
    /\ accountName = << 111, 116, 104 >>
    /\ evaluated = << << 79, 116, 104, 101, 114 >> >>
    /\ pc = "fatal"


----------------------------------------------------------------------------
(* Claims about the digits of a code                                       *)

\* The last d decimal digits of v < 2^31, left-padded with zeros
ExpectedDigits(v, d) ==
    LET m == IF d >= 10 THEN v ELSE v % Pow10(d)
        s == FormatUint(m)
    IN  [i \in 1..d |-> IF i <= d - Len(s) THEN 48 ELSE s[i - (d - Len(s))]]

\* C20: for every digit count d >= 1 and every digest, HOTP returns
\* normally a string of exactly d decimal digits, the 31-bit truncated
\* value modulo 10^d left-padded with zeros; a digit count of 0 or below
\* behaves as 6.
C20_HotpDigits ==
    called = "HOTP" =>
        LET d == IF u.Digits <= 0 THEN 6 ELSE u.Digits
            v == Truncate(HmacSum(ExpectedHash(u.Algorithm), ParseKey(u.RawSecret).bytes,
                                  ExpectedWindow(timeStep)[2]))
        IN  /\ ~ret.panic
            /\ Len(ret.curr) = d
            /\ ret.curr = ExpectedDigits(v, d)


----------------------------------------------------------------------------
(* Claims about the mode and the decryption of the config file             *)

\* C21: after WriteConfigFile returns without error the file has the
\* owner-only read/write mode 0600, whether the call created it or it
\* existed before with a wider mode.
C21_WrittenFileOwnerOnly ==
    wr.err = "nil" => (file.exists /\ file.mode = 6 * 64)


\* C22: LoadConfigFile of a file that begins with "Salted__" ends, for every
\* password, by returning a plaintext or an error; files shorter than 16
\* bytes, with an empty ciphertext or with a ciphertext that is no whole
\* number of 16-byte blocks give an error, never a panic.
C22_DecryptionNeverAborts ==
    (ld.after # "none" /\ file.exists /\ HasPrefix(file.data, saltedPrefix)) =>
        /\ ~ld.panic
        /\ (Len(file.data) < 16 \/ (Len(file.data) - 16) % 16 # 0 \/ Len(file.data) = 16)
              => (OwnerCanRead(file) /\ ld.getPass.ok => ~ld.ok /\ ld.err # "nil")


----------------------------------------------------------------------------
(* Claims about the spelling of a secret                                   *)

\* The cleaned form of each spelling: upper case, no white space, padded
\* with = to a multiple of eight characters (written out by hand).
CleanedSecret(sec) ==
    CASE sec \in { << 65, 66, 67, 68, 69, 70, 71, 72 >>,
                   << 97, 98, 99, 100, 101, 102, 103, 104 >>,
                   << 97, 98, 32, 99, 100, 32, 32, 69, 70, 103, 104, 32 >>,
                   << 97, 98, 9, 99, 100, 101, 102, 103, 104 >>,
                   << 65, 66, 67, 68, 69, 70, 71, 72, 10 >> } ->
            << 65, 66, 67, 68, 69, 70, 71, 72 >>
      [] sec \in { << 77, 90, 88, 87, 54 >>,
                   << 109, 122, 32, 120, 119, 54 >>,
                   << 77, 90, 88, 87, 54, 61, 61, 61 >>,
                   << 109, 9, 122, 120, 119, 54 >> } ->
            << 77, 90, 88, 87, 54, 61, 61, 61 >>
      [] sec = << 98, 108, 97, 114, 103, 104, 33 >> ->
            << 66, 76, 65, 82, 71, 72, 33, 61 >>
      [] sec = << 65 >> -> << 65, 61, 61, 61, 61, 61, 61, 61 >>
      [] sec = << >> -> << >>

\* C23: key decoding is insensitive to letter case and to white space
\* anywhere in the secret: normalizeSecret returns the upper-cased secret
\* without white space, padded with = to the next multiple of 8 characters
\* when its length is not one already, and is idempotent; ParseKey decodes
\* that cleaned secret, so spellings that differ in case and white space
\* give the same key or all fail.
C23_SpellingInsensitive ==
    /\ called = "normalizeSecret" =>
          /\ ret.curr = CleanedSecret(u.RawSecret)
          /\ normalizeSecret(ret.curr) = ret.curr
    /\ called = "ParseKey" =>
          LET k == B32Decode(CleanedSecret(u.RawSecret))
          IN  /\ (ret.err = "nil") <=> k.ok
              /\ k.ok => ret.curr = k.bytes


\* C30: for every secret and every time slice ts, AuthCode of the
\* normalized secret and the library's code of counter uint64(ts) with
\* default settings (SHA-1, 6 digits) after ParseKey either both fail or
\* both return the same code of 6 characters.
C30_AuthCodeAgreesWithLibrary ==
    called = "AuthCode" =>
        LET key == ParseKey(u.RawSecret)
            lib == HOTP([Key |-> key.bytes, Hash |-> "nil", Digits |-> 0], timeStep)
        IN  /\ (ret.err # "nil") <=> ~key.ok
            /\ key.ok => (~lib.panic /\ ret.curr = lib.s /\ Len(ret.curr) = 6)


----------------------------------------------------------------------------
(* Claims about the cache, add and remove                                  *)

\* C25 as stated: cachedUrls is unset when cachedRaw is, and is
\* ParseConfig(cachedRaw) when cachedRaw is set.
C25_CacheEqualsParse ==
    /\ ~cachedRaw.set => cachedUrls = << >>
    /\ cachedRaw.set => cachedUrls = ParseConfig(cachedRaw.raw).urls

\* cachedUrls is ParseConfig(cachedRaw) but for the period of the accounts
\* codes were generated for, which is the default instead of 0.
CacheConsistent ==
    /\ ~cachedRaw.set => cachedUrls = << >>
    /\ cachedRaw.set =>
          \E p \in { ParseConfig(cachedRaw.raw) } :
              /\ p.ok
              /\ Len(cachedUrls) = Len(p.urls)
              /\ \A i \in 1..Len(p.urls) :
                    \/ cachedUrls[i] = p.urls[i]
                    \/ /\ p.urls[i].Period = 0
                       /\ cachedUrls[i] = [p.urls[i] EXCEPT !.Period = 30]
                       /\ \E k \in 1..Len(evaluated) : evaluated[k] = p.urls[i].Account

\* C25: in every state of an invocation cachedUrls is unset when cachedRaw
\* is, and otherwise is ParseConfig(cachedRaw) but for the period of the
\* accounts codes were generated for (30 instead of 0); a load that fails
\* leaves both unset, a populated cache is used again without a new
\* password prompt and stays as it is until a write, and an add or remove
\* that writes the file clears both.
C25_CacheConsistent ==
    /\ []CacheConsistent
    /\ [][ /\ (pc = "getUrls" /\ pc' \in {"fatal", "panic"})
                 => (~cachedRaw'.set /\ cachedUrls' = << >>)
           /\ (cachedRaw.set /\ pc \in {"removeCode.getRawConfig", "addCode.getRawConfig"})
                 => nGetPassword' = nGetPassword
           /\ (cachedRaw.set /\ cachedRaw'.set) => cachedRaw' = cachedRaw
           /\ (file' # file) => (pc' = "exit" /\ ~cachedRaw'.set /\ cachedUrls' = << >>)
         ]_vars

C25_Witness ==
    /\ cmd = "list"
    /\ pc = "exit"
    /\ cachedRaw.set
    /\ Len(cachedUrls) = 2
    /\ cachedUrls[1].Period = 30
    /\ ParseConfig(cachedRaw.raw).urls[1].Period = 0


\* The text of a line before its first colon, the whole line if it has none.
BeforeColon(t) ==
    CHOOSE pre \in { SubSeq(t, 1, k) : k \in 0..Len(t) } :
        /\ \A j \in 1..Len(pre) : pre[j] # Ord[":"]
        /\ Len(pre) = Len(t) \/ t[Len(pre) + 1] = Ord[":"]

\* Some non-blank line of the text names an account that contains the pattern.
SomeLineMatches(pattern, text) ==
    \E line \in { Split(text, << 10 >>)[i] : i \in 1..Len(Split(text, << 10 >>)) } :
        /\ TrimSpace(line) # << >>
        /\ Contains(ToLower(BeforeColon(TrimSpace(line))), ToLower(pattern))

\* The one line read from standard input is y or Y between white space.
AnsweredYes ==
    /\ Len(stdin) = 1
    /\ TrimSpace(stdin[1]) \in { << Ord["y"] >>, << Ord["Y"] >> }

\* C26: a remove changes the config file only in the step that follows a
\* match of some line against the given name and an answer of y or Y to the
\* confirmation prompt; as long as nothing matched or the answer is
\* anything else, the file is what it was at the start.
C26_RemoveOnlyConfirmed ==
    /\ []((cmd = "remove" /\ ~AnsweredYes) => file = file0)
    /\ [][ (cmd = "remove" /\ file' # file)
              => /\ cachedRaw.set
                 /\ SomeLineMatches(accountName, cachedRaw.raw)
                 /\ stdin = << >>
                 /\ AnsweredYes'
         ]_vars

C26_Witness ==
    /\ cmd = "remove"
    /\ pc = "exit"
    /\ file # file0
    /\ stdin = << Str(<< " ", "Y", " ", "\n" >>) >>
    /\ accountName = Str(<< "o", "t", "h" >>)

\* A remove that was not confirmed: the prompt was answered with n.
C26_WitnessDeclined ==
    /\ cmd = "remove"
    /\ pc = "exit"
    /\ stdin = << Str(<< "n", "\n" >>) >>
    /\ file = file0


\* The config text of a file, decrypted under passwd if it is encrypted.
PlainConfig(f, passwd) ==
    IF HasPrefix(f.data, saltedPrefix) THEN decryptConfig(f.data, passwd).bytes ELSE f.data

\* The accounts of a sequence whose name does not contain the pattern.
RECURSIVE Without(_, _)
Without(pattern, urls) ==
    IF urls = << >> THEN << >>
    ELSE IF Contains(ToLower(urls[1].Account), ToLower(pattern))
    THEN Without(pattern, Tail(urls))
    ELSE << urls[1] >> \o Without(pattern, Tail(urls))

RemoveConfirmed == cmd = "remove" /\ pc = "exit" /\ AnsweredYes /\ file # file0

\* C27: after a confirmed remove with pattern X the accounts parsed from
\* the new file are the accounts of the old file, in the same order, whose
\* parsed account name does not contain X case-insensitively, for
\* name:secret lines and for otpauth URL lines alike.
C27_RemoveByParsedName ==
    RemoveConfirmed
        => ParseConfig(PlainConfig(file, password)).urls
              = Without(accountName, ParseConfig(PlainConfig(file0, PasswordX)).urls)

\* The same, for config files without URL lines.
C27_RemoveByNameOfNameLines ==
    (RemoveConfirmed /\ file0.data # UrlThenName /\ password \in { << >>, PasswordX })
        => ParseConfig(PlainConfig(file, password)).urls
              = Without(accountName, ParseConfig(PlainConfig(file0, PasswordX)).urls)


\* The file is encrypted and the password decrypts it to a config that parses.
DecryptsUnder(f, passwd) ==
    /\ HasPrefix(f.data, saltedPrefix)
    /\ \E d \in { decryptConfig(f.data, passwd) } : d.ok /\ ParseConfig(d.bytes).ok

\* An add or a remove wrote an encrypted config file anew.
Reencrypted ==
    /\ cmd \in { "add", "remove" }
    /\ pc = "exit"
    /\ file # file0
    /\ HasPrefix(file0.data, saltedPrefix)

\* C28: after an add or a remove on an encrypted config file that ends with
\* a write, the new file decrypts under the password that decrypted the old
\* file.
C28_SamePasswordAfterWrite ==
    Reencrypted => \A passwd \in FilePasswords :
                      DecryptsUnder(file0, passwd) => DecryptsUnder(file, passwd)

\* The same, for the invocations in which the password given to
\* handleEncryption is the one the old file decrypts under.
C28_SamePasswordWhenGivenTwice ==
    (Reencrypted /\ DecryptsUnder(file0, password))
        => \A passwd \in FilePasswords :
              DecryptsUnder(file0, passwd) => DecryptsUnder(file, passwd)


\* An add wrote the config file.
AddWrote == cmd = "add" /\ pc = "exit" /\ file # file0

\* The key typed at the prompt of an add, without the white space around it.
TypedKey == TrimSpace(stdin[1])

\* The last account of a sequence has the given name and a secret that decodes.
LastIsValid(name, urls) ==
    /\ urls # << >>
    /\ urls[Len(urls)].Account = name
    /\ ParseKey(urls[Len(urls)].RawSecret).ok

\* C29: whenever an add writes the config file, the written content parses
\* and its new account has the given name and a secret that decodes; an add
\* whose key is not valid base32 leaves the file as it was.
C29_AddWritesValidEntry ==
    /\ AddWrote => \E p \in { ParseConfig(PlainConfig(file, password)) } :
                      p.ok /\ LastIsValid(accountName, p.urls)
    /\ (cmd = "add" /\ stdin # << >> /\ ~ParseKey(TypedKey).ok) => file = file0

\* The same, for the adds to a config file in which no account given as a
\* URL matches the name.
C29_AddToNameLines ==
    /\ (AddWrote /\ file0.data # UrlThenName)
          => \E p \in { ParseConfig(PlainConfig(file, password)) } :
                p.ok /\ LastIsValid(accountName, p.urls)
    /\ (cmd = "add" /\ stdin # << >> /\ ~ParseKey(TypedKey).ok /\ file0.data # UrlThenName)
          => file = file0


\* The HOTP values of RFC 4226, appendix D, for the counts 0 to 9.
RFC4226Values ==
    << Str(<< "7", "5", "5", "2", "2", "4" >>), Str(<< "2", "8", "7", "0", "8", "2" >>),
       Str(<< "3", "5", "9", "1", "5", "2" >>), Str(<< "9", "6", "9", "4", "2", "9" >>),
       Str(<< "3", "3", "8", "3", "1", "4" >>), Str(<< "2", "5", "4", "6", "7", "6" >>),
       Str(<< "2", "8", "7", "9", "2", "2" >>), Str(<< "1", "6", "2", "5", "8", "3" >>),
       Str(<< "3", "9", "9", "8", "7", "1" >>), Str(<< "5", "2", "0", "4", "8", "9" >>) >>

\* HOTP with SHA-1 gives the values of RFC 4226 for its secret.
RFC4226Vectors ==
    (called = "HOTP" /\ u.RawSecret = SecretRFC4226 /\ u.Digits \in { 0, 6 }
        /\ timeStep \in { U64(0, 0, 0, i) : i \in 0..9 })
        => ret.curr = RFC4226Values[timeStep[4] + 1]

\* C24: with the key that "ABCDEFGH" decodes to, the counter 51790421,
\* HMAC-SHA1 and 6 digits, the code is exactly "305441".
C24_KnownAnswer ==
    (called = "HOTP" /\ u.RawSecret = SecretABCDEFGH /\ timeStep = TestTimeStep
        /\ u.Digits \in { 0, 6 })
        => (~ret.panic /\ ret.err = "nil"
            /\ ret.curr = Str(<< "3", "0", "5", "4", "4", "1" >>))

C24_Witness ==
    /\ called = "HOTP"
    /\ u.RawSecret = SecretABCDEFGH
    /\ u.Digits = 6
    /\ timeStep = TestTimeStep
    /\ ParseKey(u.RawSecret).bytes = << 0, 68, 50, 20, 199 >>
    /\ PutUint64(timeStep) = << 0, 0, 0, 0, 3, 22, 66, 85 >>
    /\ ret.curr = Str(<< "3", "0", "5", "4", "4", "1" >>)

====
